---- MODULE Spec2Model ----
(***************************************************************************)
(* A model of the KYC-AI document pipeline: the upload endpoint (app.py),  *)
(* the text acquisition engine with its page worker pool (ocr_utils.py)    *)
(* and the scoring functions (ml_model.py, confidence_engine.py).          *)
(*                                                                         *)
(* A text is a sequence of characters; a character is a one-character      *)
(* string, except the token NonAsciiChar which stands for one character    *)
(* outside \x00-\x7F.  Page numbers are 0-based as in the source.          *)
(***************************************************************************)
EXTENDS Integers, Sequences, FiniteSets, TLC

(***************************************************************************)
(* Bounds of the model.                                                    *)
(***************************************************************************)
MaxPages == 2

MaxElapsed == 1

MaxRuns == 2

MaxFields == 50

(***************************************************************************)
(* Characters and the string primitives of Python the code relies on.      *)
(***************************************************************************)
NonAsciiChar == "U+00E9"

UpperSeq == <<"A","B","C","D","E","F","G","H","I","J","K","L","M",
              "N","O","P","Q","R","S","T","U","V","W","X","Y","Z">>

LowerSeq == <<"a","b","c","d","e","f","g","h","i","j","k","l","m",
              "n","o","p","q","r","s","t","u","v","w","x","y","z">>

Digits == {"0","1","2","3","4","5","6","7","8","9"}

Upper == {UpperSeq[i] : i \in 1..26}

Lower == {LowerSeq[i] : i \in 1..26}

IsSpace(c) == c \in {" ", "\n", "\t"}

IsAscii(c) == c # NonAsciiChar

lower_char(c) ==
    IF c \in Upper THEN LowerSeq[CHOOSE i \in 1..26 : UpperSeq[i] = c] ELSE c

lower(t) == [i \in 1..Len(t) |-> lower_char(t[i])]

\* t.strip()
strip(t) ==
    LET n == Len(t)
        solid(i) == ~IsSpace(t[i])
    IN  IF \A i \in 1..n : ~solid(i) THEN <<>>
        ELSE SubSeq(t, CHOOSE i \in 1..n : solid(i) /\ \A j \in 1..(i - 1) : ~solid(j),
                       CHOOSE i \in 1..n : solid(i) /\ \A j \in (i + 1)..n : ~solid(j))

\* sub occurs in t starting at position i (1-based)
OccursAt(t, sub, i) ==
    /\ i >= 1
    /\ i + Len(sub) - 1 <= Len(t)
    /\ \A j \in 1..Len(sub) : t[i + j - 1] = sub[j]

\* Python's `sub in t`
contains(t, sub) == \E i \in 1..(Len(t) + 1) : OccursAt(t, sub, i)

\* Python's t.endswith(sub)
endswith(t, sub) == Len(sub) <= Len(t) /\ OccursAt(t, sub, Len(t) - Len(sub) + 1)

\* re.sub(r'[^\x00-\x7F]+', '', text)
strip_non_ascii(t) == SelectSeq(t, IsAscii)

\* re.sub(r'\s+', ' ', text): a whitespace run leaves one space
collapse_ws(t) ==
    LET tagged == [i \in 1..Len(t) |-> <<i, t[i]>>]
        keep(p) == ~IsSpace(p[2]) \/ p[1] = 1 \/ ~IsSpace(t[p[1] - 1])
        kept == SelectSeq(tagged, keep)
    IN  [i \in 1..Len(kept) |-> IF IsSpace(kept[i][2]) THEN " " ELSE kept[i][2]]

\* the Clean & Normalize step of extract_text
normalize(t) == strip(collapse_ws(strip_non_ascii(t)))

\* " ".join(results) for results indexed 0..n-1
RECURSIVE join_upto(_, _)
join_upto(res, n) ==
    IF n = 0 THEN <<>>
    ELSE IF n = 1 THEN res[0]
    ELSE join_upto(res, n - 1) \o <<" ">> \o res[n - 1]

join(res) == join_upto(res, Cardinality(DOMAIN res))

(***************************************************************************)
(* IEEE-754 double arithmetic, as far as calculate_completeness_score uses *)
(* it: int((non_empty_fields / total_fields) * 100).  A positive double is *)
(* [m |-> <<1, d1, d2, d3, d4>>, e |-> exponent]: the 53-bit mantissa      *)
(* 2^52 + d1*2^39 + d2*2^26 + d3*2^13 + d4 in limbs of 13 bits, of value   *)
(* mantissa * 2^e; zero has the empty mantissa.  Rounding is to nearest,   *)
(* ties to even.                                                           *)
(***************************************************************************)
LimbBits == 13

RECURSIVE pow2(_)
pow2(s) == IF s = 0 THEN 1 ELSE 2 * pow2(s - 1)

Limb == pow2(LimbBits)

RECURSIVE shift_count(_, _)
shift_count(k, n) == IF k >= n THEN 0 ELSE 1 + shift_count(2 * k, n)

RECURSIVE bit_length(_)
bit_length(v) == IF v = 0 THEN 0 ELSE 1 + bit_length(v \div 2)

\* mantissa + 1, renormalised when it reaches 2^53
inc_mantissa(m, e) ==
    LET c4 == IF m[5] + 1 = Limb THEN 1 ELSE 0
        c3 == IF m[4] + c4 = Limb THEN 1 ELSE 0
        c2 == IF m[3] + c3 = Limb THEN 1 ELSE 0
        c1 == IF m[2] + c2 = Limb THEN 1 ELSE 0
    IN  IF c1 = 1 THEN [m |-> <<1, 0, 0, 0, 0>>, e |-> e + 1]
        ELSE [m |-> <<1, (m[2] + c2) % Limb, (m[3] + c3) % Limb,
                      (m[4] + c4) % Limb, (m[5] + 1) % Limb>>, e |-> e]

\* cmp is -1, 0, 1 as the discarded part is below, at, above one half of the
\* last kept bit
round_even(m, e, cmp) ==
    IF cmp < 0 \/ (cmp = 0 /\ m[5] % 2 = 0) THEN [m |-> m, e |-> e]
    ELSE inc_mantissa(m, e)

\* the double k / n for integers 0 <= k <= n, 0 < n < 2^17
float_div(k, n) ==
    IF k = 0 THEN [m |-> <<>>, e |-> 0]
    ELSE LET s == shift_count(k, n)
             r0 == k * pow2(s) - n
             d1 == (r0 * Limb) \div n
             r1 == (r0 * Limb) % n
             d2 == (r1 * Limb) \div n
             r2 == (r1 * Limb) % n
             d3 == (r2 * Limb) \div n
             r3 == (r2 * Limb) % n
             d4 == (r3 * Limb) \div n
             r4 == (r3 * Limb) % n
             cmp == IF 2 * r4 > n THEN 1 ELSE IF 2 * r4 = n THEN 0 ELSE -1
         IN  round_even(<<1, d1, d2, d3, d4>>, 0 - s - 4 * LimbBits, cmp)

\* the double f * c for an integer 2 <= c < 2^12
float_mul(f, c) ==
    IF f.m = <<>> THEN f
    ELSE LET t4 == f.m[5] * c
             t3 == f.m[4] * c + t4 \div Limb
             t2 == f.m[3] * c + t3 \div Limb
             t1 == f.m[2] * c + t2 \div Limb
             top == c + t1 \div Limb
             d == bit_length(top) - 1
             lo == pow2(d)
             up == pow2(LimbBits - d)
             o1 == t1 % Limb
             o2 == t2 % Limb
             o3 == t3 % Limb
             o4 == t4 % Limb
             kept == <<1, (top % lo) * up + o1 \div lo, (o1 % lo) * up + o2 \div lo,
                       (o2 % lo) * up + o3 \div lo, (o3 % lo) * up + o4 \div lo>>
             dropped == o4 % lo
             cmp == IF 2 * dropped > lo THEN 1 ELSE IF 2 * dropped = lo THEN 0 ELSE -1
         IN  round_even(kept, f.e + d, cmp)

\* int(f): truncation of a double 0 <= f < 2^14
float_trunc(f) ==
    IF f.m = <<>> \/ f.e < 0 - 4 * LimbBits THEN 0
    ELSE (Limb + f.m[2]) \div pow2(0 - f.e - 3 * LimbBits)

(***************************************************************************)
(* ml_model.py                                                             *)
(***************************************************************************)
\* Python truthiness of `v and str(v).strip()` for a string v
is_filled(v) == v # <<>> /\ strip(v) # <<>>

non_empty_fields(data) == Cardinality({key \in DOMAIN data : is_filled(data[key])})

calculate_completeness_score(data) ==
    IF DOMAIN data = {} THEN 0
    ELSE float_trunc(float_mul(float_div(non_empty_fields(data),
                                         Cardinality(DOMAIN data)), 100))

(***************************************************************************)
(* The regular expressions of ml_model.py and confidence_engine.py, each   *)
(* as the predicate re.match decides on a string value.                    *)
(***************************************************************************)
\* \w of a Python 3 str pattern (letters outside ASCII are word characters)
IsWord(c) == c \in Upper \cup Lower \cup Digits \cup {"_", NonAsciiChar}

\* `$` also matches just before one trailing newline
chomp(v) == IF v # <<>> /\ v[Len(v)] = "\n" THEN SubSeq(v, 1, Len(v) - 1) ELSE v

\* re.match(r"^[A-Z]{5}[0-9]{4}[A-Z]$", v)
match_pan(v) ==
    LET w == chomp(v)
    IN  /\ Len(w) = 10
        /\ \A i \in 1..5 : w[i] \in Upper
        /\ \A i \in 6..9 : w[i] \in Digits
        /\ w[10] \in Upper

\* re.match(r"\b\d{2}/\d{2}/\d{4}\b", v)
match_dob(v) ==
    /\ Len(v) >= 10
    /\ \A i \in {1, 2, 4, 5, 7, 8, 9, 10} : v[i] \in Digits
    /\ v[3] = "/" /\ v[6] = "/"
    /\ (Len(v) > 10 => ~IsWord(v[11]))

\* re.match(r"[^@]+@[^@]+\.[^@]+", v)
match_email(v) ==
    \E a \in 2..Len(v) :
        /\ v[a] = "@"
        /\ \A i \in 1..(a - 1) : v[i] # "@"
        /\ \E d \in (a + 2)..(Len(v) - 1) :
              /\ v[d] = "."
              /\ \A i \in (a + 1)..(d + 1) : v[i] # "@"

\* re.match(r"^\d{10}$", v)
match_phone(v) ==
    LET w == chomp(v)
    IN  Len(w) = 10 /\ \A i \in 1..10 : w[i] \in Digits

\* the anomaly messages in the order detect_anomalies appends them
detect_anomalies(data) ==
    (IF "PAN Number" \in DOMAIN data /\ ~match_pan(data["PAN Number"])
        THEN <<"Invalid PAN format">> ELSE <<>>)
    \o (IF "Date of Birth" \in DOMAIN data /\ ~match_dob(data["Date of Birth"])
        THEN <<"Suspicious DOB format">> ELSE <<>>)
    \o (IF "Email" \in DOMAIN data /\ ~match_email(data["Email"])
        THEN <<"Invalid Email format">> ELSE <<>>)
    \o (IF "Phone" \in DOMAIN data /\ ~match_phone(data["Phone"])
        THEN <<"Invalid Phone number">> ELSE <<>>)

\* the anomaly list left out of the Low tier
risk_level_no_anomalies(completeness, anomalies) ==
    IF completeness >= 80 THEN "Low"
    ELSE IF completeness >= 50 THEN "Medium"
    ELSE "High"

risk_level(completeness, anomalies) ==
    IF completeness >= 80 /\ anomalies = <<>> THEN "Low"
    ELSE IF completeness >= 50 THEN "Medium"
    ELSE "High"

risk_reason(level) ==
    IF level = "Low" THEN "Document appears complete and valid."
    ELSE IF level = "Medium" THEN "Partial or inconsistent data found."
    ELSE "Significant missing fields or invalid data patterns."

\* str(n) for an integer n >= 0
RECURSIVE str_int(_)
str_int(n) ==
    LET digit == <<(<<"0","1","2","3","4","5","6","7","8","9">>)[(n % 10) + 1]>>
    IN  IF n < 10 THEN digit ELSE str_int(n \div 10) \o digit

risk_classification(data, document_type) ==
    LET completeness == calculate_completeness_score(data)
        anomalies == detect_anomalies(data)
        level == risk_level(completeness, anomalies)
    IN  "Document Type" :> document_type
        @@ "Completeness" :> (str_int(completeness) \o <<"%">>)
        @@ "Detected Anomalies" :> (IF anomalies = <<>> THEN <<"None">> ELSE anomalies)
        @@ "Risk Level" :> level
        @@ "Reason" :> risk_reason(level)

(***************************************************************************)
(* confidence_engine.py                                                    *)
(***************************************************************************)
\* Python truthiness of a string: `not value` holds of the empty string only
is_falsy(value) == value = <<>>

field_score(value, extracted_text) ==
    IF is_falsy(value) THEN 0
    ELSE LET base == 60
             verbatim == IF contains(lower(extracted_text), lower(value)) THEN 20 ELSE 0
             pan == IF match_pan(value) THEN 15 ELSE 0
             dob == IF match_dob(value) THEN 10 ELSE 0
             email == IF contains(value, <<"@">>) /\ contains(value, <<".">>) THEN 10 ELSE 0
             score == base + verbatim + pan + dob + email
         IN  IF score < 100 THEN score ELSE 100

compute_field_confidence(structured_data, extracted_text) ==
    [key \in DOMAIN structured_data |-> field_score(structured_data[key], extracted_text)]

(***************************************************************************)
(* ocr_utils.py: extract_text                                              *)
(***************************************************************************)
FastPathThreshold == 80

ext_jpg ==
    <<".","j","p","g">>

ext_jpeg ==
    <<".","j","p","e","g">>

ext_png ==
    <<".","p","n","g">>

ext_pdf ==
    <<".","p","d","f">>

allowed == {ext_jpg, ext_jpeg, ext_png, ext_pdf}

UPLOAD_DIR ==
    <<"u","p","l","o","a","d","s">>

\* the largest index from lo on at which path holds the character c, else 0
last_index(path, c, lo) ==
    LET hits == {i \in lo..Len(path) : path[i] = c}
    IN  IF hits = {} THEN 0 ELSE CHOOSE i \in hits : \A j \in hits : j <= i

\* os.path.splitext(path)[1]: the extension starts at the last dot of the
\* basename; the leading dots of the basename do not start one
splitext_ext(path) ==
    LET base == last_index(path, "/", 1) + 1
        dot == last_index(path, ".", base)
    IN  IF dot = 0 \/ \A j \in base..(dot - 1) : path[j] = "." THEN <<>>
        ELSE SubSeq(path, dot, Len(path))

\* os.path.join(UPLOAD_DIR, filename)
path_join(dir, filename) ==
    IF filename # <<>> /\ Head(filename) = "/" THEN filename
    ELSE dir \o <<"/">> \o filename

\* the except clause handing back what was read so far instead of ""
page_text_no_reset(page) ==
    LET text_data == strip(page.emb)
    IN  IF page.fault = "load" THEN text_data
        ELSE IF Len(text_data) > FastPathThreshold THEN text_data
        ELSE IF page.fault = "ocr" THEN text_data
        ELSE strip(page.ocr)

\* the fast path taken from the threshold on
page_text_at_threshold(page) ==
    IF page.fault = "load" THEN <<>>
    ELSE LET text_data == strip(page.emb)
         IN  IF Len(text_data) >= FastPathThreshold THEN text_data
             ELSE IF page.fault = "ocr" THEN <<>>
             ELSE strip(page.ocr)

\* what process_page returns for a page as its text: the embedded text on
\* the fast path, the OCR text otherwise, "" when the page raises
page_text(page) ==
    IF page.fault = "load" THEN <<>>
    ELSE LET text_data == strip(page.emb)
         IN  IF Len(text_data) > FastPathThreshold THEN text_data
             ELSE IF page.fault = "ocr" THEN <<>>
             ELSE strip(page.ocr)

\* whether process_page reaches pytesseract for the page
page_runs_ocr(page) ==
    page.fault # "load" /\ Len(strip(page.emb)) <= FastPathThreshold

process_page(pages, page_number) == <<page_number, page_text(pages[page_number])>>

\* one worker per processor, without the cap
max_workers_uncapped(cpus) == IF cpus = 0 THEN 2 ELSE cpus

\* min(4, os.cpu_count() or 2); cpu_count 0 stands for None
max_workers(cpus) ==
    LET c == IF cpus = 0 THEN 2 ELSE cpus
    IN  IF c < 4 THEN c ELSE 4

\* append-on-completion: the slot is the position in completion order
slot_for_append(idx, consumed_before) == consumed_before

\* results[idx] = result_text: the slot a completed future is stored in, given
\* the index it returned and the number of futures consumed before it
slot_for(idx, consumed_before) == idx

\* the image branch of extract_text, before normalisation
image_text(img) ==
    IF Len(img.normal) > Len(img.inverted) THEN img.normal ELSE img.inverted

(***************************************************************************)
(* app.py: detect_document_type                                            *)
(***************************************************************************)
kw_income_tax ==
    <<"i","n","c","o","m","e"," ","t","a","x"," ","d","e","p","a","r","t",
      "m","e","n","t">>

kw_permanent ==
    <<"p","e","r","m","a","n","e","n","t"," ","a","c","c","o","u","n","t",
      " ","n","u","m","b","e","r">>

kw_aadhaar ==
    <<"a","a","d","h","a","a","r">>

kw_uidai ==
    <<"u","i","d","a","i">>

resume_keywords ==
    {<<"e","d","u","c","a","t","i","o","n">>,
     <<"e","x","p","e","r","i","e","n","c","e">>,
     <<"s","k","i","l","l","s">>,
     <<"p","r","o","j","e","c","t","s">>,
     <<"i","n","t","e","r","n">>,
     <<"g","i","t","h","u","b">>,
     <<"l","i","n","k","e","d","i","n">>,
     <<"b","a","c","h","e","l","o","r">>,
     <<"e","n","g","i","n","e","e","r">>}

MinClassifyLen == 10

\* the Aadhaar rule tried before the PAN rule
detect_document_type_aadhaar_first(txt) ==
    IF txt = <<>> \/ Len(strip(txt)) < MinClassifyLen THEN "Unknown"
    ELSE LET t == lower(txt)
         IN  IF contains(t, kw_aadhaar) \/ contains(t, kw_uidai) THEN "Aadhaar Card"
             ELSE IF contains(t, kw_income_tax) \/ contains(t, kw_permanent) THEN "PAN Card"
             ELSE IF \E w \in resume_keywords : contains(t, w) THEN "Resume"
             ELSE "Unknown"

detect_document_type(txt) ==
    IF txt = <<>> \/ Len(strip(txt)) < MinClassifyLen THEN "Unknown"
    ELSE LET t == lower(txt)
         IN  IF contains(t, kw_income_tax) \/ contains(t, kw_permanent) THEN "PAN Card"
             ELSE IF contains(t, kw_aadhaar) \/ contains(t, kw_uidai) THEN "Aadhaar Card"
             ELSE IF \E w \in resume_keywords : contains(t, w) THEN "Resume"
             ELSE "Unknown"

(***************************************************************************)
(* ocr_utils.py: extract_pan_details, extract_resume_details.  A search    *)
(* returns the matched text, or the empty text when re.search finds none   *)
(* (no pattern here matches the empty text).                               *)
(***************************************************************************)
least(S) == CHOOSE i \in S : \A j \in S : i <= j

word_at(t, i) == i >= 1 /\ i <= Len(t) /\ IsWord(t[i])

\* \b between the characters at i - 1 and i
boundary(t, i) == word_at(t, i - 1) # word_at(t, i)

\* the end of the longest run of characters of class cls that starts at i
\* (i - 1 when t[i] is not in cls)
run_end(t, i, cls) ==
    LET stops == {j \in i..(Len(t) + 1) : j = Len(t) + 1 \/ t[j] \notin cls}
    IN  least(stops) - 1

first_match(t, starts, end_of) ==
    IF starts = {} THEN <<>> ELSE SubSeq(t, least(starts), end_of[least(starts)])

\* re.search(r"\b[A-Z]{5}[0-9]{4}[A-Z]\b", text)
search_pan(t) ==
    LET ok(i) == /\ i + 9 <= Len(t)
                 /\ \A j \in 0..4 : t[i + j] \in Upper
                 /\ \A j \in 5..8 : t[i + j] \in Digits
                 /\ t[i + 9] \in Upper
                 /\ boundary(t, i) /\ boundary(t, i + 10)
        stop(i) == i + 9
    IN  first_match(t, {i \in 1..Len(t) : ok(i)}, [i \in 1..Len(t) |-> stop(i)])

\* re.search(r"\b\d{2}/\d{2}/\d{4}\b", text)
search_dob(t) ==
    LET ok(i) == /\ i + 9 <= Len(t)
                 /\ \A j \in {0, 1, 3, 4, 6, 7, 8, 9} : t[i + j] \in Digits
                 /\ t[i + 2] = "/" /\ t[i + 5] = "/"
                 /\ boundary(t, i) /\ boundary(t, i + 10)
        stop(i) == i + 9
    IN  first_match(t, {i \in 1..Len(t) : ok(i)}, [i \in 1..Len(t) |-> stop(i)])

\* [line.strip() for line in re.split(r'[ \r\n]+', text) if line.strip()],
\* each piece with the index it starts at
split_lines(t) ==
    LET sep(i) == i < 1 \/ i > Len(t) \/ t[i] \in {" ", "\r", "\n"}
        starts == {i \in 1..Len(t) : ~sep(i) /\ sep(i - 1)}
        piece(i) == SubSeq(t, i, least({j \in i..Len(t) : sep(j + 1)}))
    IN  {<<i, strip(piece(i))>> : i \in {j \in starts : strip(piece(j)) # <<>>}}

\* re.match(r'^[A-Z ]{3,}$', line) and not re.search(r'\d', line)
is_name_candidate(line) ==
    LET w == chomp(line)
    IN  /\ Len(w) >= 3
        /\ \A i \in 1..Len(w) : w[i] \in Upper \cup {" "}
        /\ \A i \in 1..Len(line) : line[i] \notin Digits

\* max(name_candidates, key=len): the first of the longest candidates
longest_candidate(lines) ==
    LET cands == {p \in lines : is_name_candidate(p[2])}
        best == CHOOSE p \in cands : \A q \in cands :
                    \/ Len(q[2]) < Len(p[2])
                    \/ (Len(q[2]) = Len(p[2]) /\ p[1] <= q[1])
    IN  IF cands = {} THEN <<>> ELSE best[2]

\* every key stored, with the empty text where its search found nothing
fields_of_placeholders(pairs) ==
    [key \in {pairs[i][1] : i \in 1..Len(pairs)} |->
        pairs[CHOOSE i \in 1..Len(pairs) : pairs[i][1] = key][2]]

\* the entries of a dict literal that are present: pairs <<key, value>> with
\* a non-empty value
fields_of(pairs) ==
    LET present == {i \in 1..Len(pairs) : pairs[i][2] # <<>>}
    IN  [key \in {pairs[i][1] : i \in present} |->
            pairs[CHOOSE i \in present : pairs[i][1] = key][2]]

extract_pan_details(txt) ==
    IF strip(txt) = <<>> THEN <<>>
    ELSE fields_of(<<
            <<"PAN Number", search_pan(txt)>>,
            <<"Date of Birth", search_dob(txt)>>,
            <<"Name", longest_candidate(split_lines(txt))>> >>)

\* the end of [A-Z][a-z]+ at i, or 0 when it does not match there
cap_word_end(t, i) ==
    IF i + 1 <= Len(t) /\ t[i] \in Upper /\ t[i + 1] \in Lower
    THEN run_end(t, i + 1, Lower) ELSE 0

\* the end of one (?:\s[A-Z][a-z]+) group starting after position e, or 0
next_cap_word_end(t, e) ==
    IF e > 0 /\ e + 1 <= Len(t) /\ IsSpace(t[e + 1]) THEN cap_word_end(t, e + 2) ELSE 0

\* re.search(r'([A-Z][a-z]+(?:\s[A-Z][a-z]+){1,2})', text)
search_name(t) ==
    LET second(i) == next_cap_word_end(t, cap_word_end(t, i))
        third(i) == next_cap_word_end(t, second(i))
        stop(i) == IF third(i) > 0 THEN third(i) ELSE second(i)
    IN  first_match(t, {i \in 1..Len(t) : second(i) > 0}, [i \in 1..Len(t) |-> stop(i)])

\* [\w\.-]
EmailChars == Upper \cup Lower \cup Digits \cup {"_", NonAsciiChar, ".", "-"}

WordChars == Upper \cup Lower \cup Digits \cup {"_", NonAsciiChar}

\* re.search(r'[\w\.-]+@[\w\.-]+\.\w+', text)
search_email(t) ==
    LET at(i) == run_end(t, i, EmailChars) + 1
        dots(i) == {d \in (at(i) + 2)..run_end(t, at(i) + 1, EmailChars) :
                        t[d] = "." /\ word_at(t, d + 1)}
        ok(i) == /\ at(i) > i
                 /\ at(i) <= Len(t)
                 /\ t[at(i)] = "@"
                 /\ dots(i) # {}
        last_dot(i) == CHOOSE d \in dots(i) : \A e \in dots(i) : e <= d
        stop(i) == run_end(t, last_dot(i) + 1, WordChars)
    IN  first_match(t, {i \in 1..Len(t) : ok(i)}, [i \in 1..Len(t) |-> stop(i)])

\* re.search(r'\b\d{10}\b', text)
search_phone(t) ==
    LET ok(i) == /\ i + 9 <= Len(t)
                 /\ \A j \in 0..9 : t[i + j] \in Digits
                 /\ boundary(t, i) /\ boundary(t, i + 10)
        stop(i) == i + 9
    IN  first_match(t, {i \in 1..Len(t) : ok(i)}, [i \in 1..Len(t) |-> stop(i)])

locations ==
    <<<<"M","a","n","g","a","l","o","r","e">>,
      <<"B","a","n","g","a","l","o","r","e">>,
      <<"K","a","r","n","a","t","a","k","a">>,
      <<"M","u","m","b","a","i">>,
      <<"D","e","l","h","i">>,
      <<"C","h","e","n","n","a","i">>,
      <<"H","y","d","e","r","a","b","a","d">>,
      <<"P","u","n","e">>>>

degrees ==
    <<<<"B","a","c","h","e","l","o","r">>,
      <<"B",".","E",".">>,
      <<"B","T","e","c","h">>,
      <<"B",".","T","e","c","h">>,
      <<"M","a","s","t","e","r">>,
      <<"M","T","e","c","h">>,
      <<"M",".","T","e","c","h">>,
      <<"E","n","g","i","n","e","e","r","i","n","g">>,
      <<"C","o","m","p","u","t","e","r"," ","S","c","i","e","n","c","e">>>>

skills_keywords ==
    <<<<"P","y","t","h","o","n">>,
      <<"J","a","v","a">>,
      <<"C","+","+">>,
      <<"G","o","l","a","n","g">>,
      <<"A","W","S">>,
      <<"D","o","c","k","e","r">>,
      <<"K","u","b","e","r","n","e","t","e","s">>,
      <<"T","e","r","r","a","f","o","r","m">>,
      <<"S","Q","L">>,
      <<"G","i","t">>,
      <<"A","z","u","r","e">>,
      <<"P","o","w","e","r","B","I">>,
      <<"T","a","b","l","e","a","u">>>>

\* the first alternative of the list that matches at i, or 0; low is the
\* lowercased text, the match ignoring case
alternative_at(t, low, words, i, bounded) ==
    LET hits == {k \in 1..Len(words) :
                    /\ OccursAt(low, lower(words[k]), i)
                    /\ bounded => (boundary(t, i) /\ boundary(t, i + Len(words[k])))}
    IN  IF hits = {} THEN 0 ELSE least(hits)

\* re.search of an alternation of literal words, re.IGNORECASE
search_words(t, words, bounded) ==
    LET low == lower(t)
        stop(i) == i + Len(words[alternative_at(t, low, words, i, bounded)]) - 1
    IN  first_match(t, {i \in 1..Len(t) : alternative_at(t, low, words, i, bounded) > 0},
                    [i \in 1..Len(t) |-> stop(i)])

\* re.search(skill, text, re.IGNORECASE) with the keyword used as a pattern:
\* "C++" is the possessive C+, one or more letters C, where the re module
\* accepts it; every other keyword is a literal
skill_found(t, skill) ==
    IF skill = <<"C","+","+">> THEN contains(lower(t), <<"c">>)
    ELSE contains(lower(t), lower(skill))

\* ", ".join(words)
comma_join(words) ==
    LET RECURSIVE go(_)
        go(n) == IF n = 0 THEN <<>>
                 ELSE IF n = 1 THEN words[1]
                 ELSE go(n - 1) \o <<",", " ">> \o words[n]
    IN  go(Len(words))

found_skills(t) ==
    LET is_found(skill) == skill_found(t, skill)
    IN  SelectSeq(skills_keywords, is_found)

extract_resume_details(txt) ==
    IF strip(txt) = <<>> THEN <<>>
    ELSE LET t == collapse_ws(txt)
         IN  fields_of(<<
                <<"Name", search_name(t)>>,
                <<"Email", search_email(t)>>,
                <<"Phone", search_phone(t)>>,
                <<"Location", search_words(t, locations, TRUE)>>,
                <<"Education", search_words(t, degrees, FALSE)>>,
                <<"Skills", comma_join(found_skills(t))>> >>)

(***************************************************************************)
(* app.py: generate_summary                                                *)
(***************************************************************************)
\* round((filled_fields / total_fields) * 100, 2), in hundredths of a percent
completeness_x100(filled, total) == (20000 * filled + total) \div (2 * total)

generate_summary(structured_data, doc_type) ==
    LET total_fields == Cardinality(DOMAIN structured_data)
        filled_fields == non_empty_fields(structured_data)
        completeness == IF total_fields > 0
                        THEN completeness_x100(filled_fields, total_fields) ELSE 0
        confidence == IF total_fields > 0
                      THEN IF completeness >= 8000 THEN "High"
                           ELSE IF completeness >= 5000 THEN "Medium" ELSE "Low"
                      ELSE "Low"
        summary == "Document Type" :> doc_type
                   @@ "Fields Extracted" :> total_fields
                   @@ "Filled Fields" :> filled_fields
                   @@ "Completeness (%)" :> completeness
                   @@ "Confidence" :> confidence
    IN  IF doc_type = "Resume"
        THEN summary @@ "Detected Skills" :>
                (IF "Skills" \in DOMAIN structured_data THEN structured_data["Skills"]
                 ELSE <<"N","/","A">>)
        ELSE IF doc_type = "PAN Card" /\ "PAN Number" \notin DOMAIN structured_data
        THEN summary @@ "Note" :> "PAN number missing or unreadable"
        ELSE IF doc_type = "Aadhaar Card"
        THEN summary @@ "Note" :> "Aadhaar extraction module pending"
        ELSE summary

(***************************************************************************)
(* xai.py: explain_risk.  A reason or a suggestion is <<template, list>>,  *)
(* the list holding what the template is joined with; the headline is      *)
(* <<risk level, connective, the reasons it quotes>>.                      *)
(***************************************************************************)
\* structured.get(key), None being the empty text
get(data, key) == IF key \in DOMAIN data THEN data[key] ELSE <<>>

\* _present(v)
present(v) == strip(v) # <<>>

\* _missing(keys, data)
missing(keys, data) ==
    LET is_missing(k) == ~present(get(data, k))
    IN  SelectSeq(keys, is_missing)

\* int(float(s)) for a text of decimal digits; 0 stands for the ValueError
\* branch, which sets comp_pct = 0
RECURSIVE parse_digits(_)
parse_digits(t) ==
    IF t = <<>> THEN 0
    ELSE 10 * parse_digits(SubSeq(t, 1, Len(t) - 1))
         + (CHOOSE d \in 0..9 : str_int(d) = <<t[Len(t)]>>)

not_percent(c) == c # "%"

comp_pct_of(risk_assessment) ==
    LET comp_pct_str == SelectSeq(risk_assessment["Completeness"], not_percent)
    IN  IF comp_pct_str # <<>> /\ \A i \in 1..Len(comp_pct_str) : comp_pct_str[i] \in Digits
        THEN parse_digits(comp_pct_str) ELSE 0

when(cond, items) == IF cond THEN items ELSE <<>>

\* no commentary for a complete map
completeness_reasons_silent(comp_pct) ==
    IF comp_pct >= 90 THEN <<>>
    ELSE IF comp_pct >= 60 THEN << <<"Some required fields are missing.", <<>> >> >>
    ELSE << <<"Many fields are missing or unreadable.", <<>> >> >>

completeness_reasons(comp_pct) ==
    IF comp_pct >= 90 THEN << <<"Most mandatory fields are present.", <<>> >> >>
    ELSE IF comp_pct >= 60 THEN << <<"Some required fields are missing.", <<>> >> >>
    ELSE << <<"Many fields are missing or unreadable.", <<>> >> >>

completeness_suggestions(comp_pct) ==
    IF comp_pct >= 90 THEN <<>>
    ELSE IF comp_pct >= 60 THEN << <<"Provide the missing fields listed below.", <<>> >> >>
    ELSE << <<"Upload a higher-quality image or text-based PDF.", <<>> >> >>

pan_required == <<"Name", "PAN Number", "Date of Birth">>

resume_must_have == <<"Name", "Email", "Phone">>

pan_format_invalid(structured) ==
    present(get(structured, "PAN Number")) /\ ~match_pan(get(structured, "PAN Number"))

dob_format_unusual(structured) ==
    /\ present(get(structured, "Date of Birth"))
    /\ search_dob(get(structured, "Date of Birth")) = <<>>

masked_aadhaar(structured) == contains(get(structured, "Aadhaar Number"), <<"X","X","X","X">>)

category_reasons(structured, t) ==
    IF t = "pan card"
    THEN (IF missing(pan_required, structured) # <<>>
          THEN << <<"Missing key PAN fields: ", missing(pan_required, structured)>> >>
          ELSE << <<"All key PAN fields were successfully detected.", <<>> >> >>)
         \o when(pan_format_invalid(structured), << <<"PAN format appears invalid.", <<>> >> >>)
         \o when(dob_format_unusual(structured),
                 << <<"Date of Birth format appears unusual.", <<>> >> >>)
    ELSE IF t = "aadhaar card"
    THEN << <<"Basic Aadhaar checks applied.", <<>> >> >>
         \o when(masked_aadhaar(structured), << <<"Masked Aadhaar number detected.", <<>> >> >>)
    ELSE IF t = "resume"
    THEN (IF missing(resume_must_have, structured) # <<>>
          THEN << <<"Resume basics missing: ", missing(resume_must_have, structured)>> >>
          ELSE << <<"Resume key contact details successfully extracted.", <<>> >> >>)
         \o when(present(get(structured, "Skills")),
                 << <<"Skills section detected and parsed.", <<>> >> >>)
    ELSE <<>>

category_suggestions(structured, t) ==
    IF t = "pan card"
    THEN when(pan_format_invalid(structured),
              << <<"Ensure PAN follows format: 5 letters + 4 digits + 1 letter (e.g., ABCDE1234F).", <<>> >> >>)
         \o when(dob_format_unusual(structured),
                 << <<"Use DD/MM/YYYY format (e.g., 07/11/1999).", <<>> >> >>)
    ELSE IF t = "aadhaar card"
    THEN when(masked_aadhaar(structured),
              << <<"Provide a full, non-masked Aadhaar number for verification.", <<>> >> >>)
         \o << <<"Ensure the front side of Aadhaar is uploaded for accurate parsing.", <<>> >> >>
    ELSE IF t = "resume"
    THEN when(missing(resume_must_have, structured) # <<>>,
              << <<"Ensure name, email, and phone number are visible on the first page.", <<>> >> >>)
         \o when(~present(get(structured, "Skills")),
                 << <<"Add a 'Skills' section listing your core technologies.", <<>> >> >>)
    ELSE <<>>

\* (doc_type or "").strip().lower() of the four category names
doc_type_key(doc_type) ==
    IF doc_type = "PAN Card" THEN "pan card"
    ELSE IF doc_type = "Aadhaar Card" THEN "aadhaar card"
    ELSE IF doc_type = "Resume" THEN "resume"
    ELSE "unknown"

LowTextLen == 40

MaxHeadlineReasons == 3

explain_risk(structured, doc_type, risk_assessment, extracted_text) ==
    LET comp_pct == comp_pct_of(risk_assessment)
        t == doc_type_key(doc_type)
        anoms == risk_assessment["Detected Anomalies"]
        has_anoms == anoms # <<>> /\ anoms[1] # "None"
        low_text == Len(strip(extracted_text)) < LowTextLen
        reasons == completeness_reasons(comp_pct)
                   \o category_reasons(structured, t)
                   \o when(has_anoms, << <<"Detected anomalies: ", anoms>> >>)
                   \o when(low_text,
                           << <<"Very low text content - likely a cropped or noisy image.", <<>> >> >>)
        suggestions == completeness_suggestions(comp_pct)
                       \o category_suggestions(structured, t)
                       \o when(has_anoms,
                               << <<"Correct the highlighted anomalies and re-upload.", <<>> >> >>)
                       \o when(low_text,
                               << <<"Use a straight, well-lit photo or a digital PDF.", <<>> >> >>)
        risk_lvl == risk_assessment["Risk Level"]
        quoted == IF Len(reasons) < MaxHeadlineReasons THEN Len(reasons)
                  ELSE MaxHeadlineReasons
        headline == IF reasons # <<>>
                    THEN <<risk_lvl, "Key factors: ", SubSeq(reasons, 1, quoted)>>
                    ELSE <<risk_lvl, "No anomalies detected.", <<>> >>
    IN  [headline |-> headline,
         risk_level |-> risk_lvl,
         reasons |-> IF reasons # <<>> THEN reasons
                     ELSE << <<"No anomalies detected.", <<>> >> >>,
         suggestions |-> IF suggestions # <<>> THEN suggestions
                         ELSE << <<"No corrective actions needed.", <<>> >> >>]

(***************************************************************************)
(* fraud_intelligence.py, fraud_detector.py                                *)
(***************************************************************************)
suspicious_keywords ==
    <<<<"f","a","k","e">>,
      <<"e","d","i","t","e","d">>,
      <<"t","e","m","p","l","a","t","e">>,
      <<"d","u","p","l","i","c","a","t","e">>,
      <<"t","a","m","p","e","r","e","d">>>>

kw_manipulated ==
    <<"m","a","n","i","p","u","l","a","t","e","d">>

ImageScore == 50

TextScore == 40

MaxFraudScore == 100

HighFraud == 70

MediumFraud == 40

\* file_path.lower().endswith((".jpg", ".jpeg", ".png"))
is_image_path(file_path) ==
    \E e \in {ext_jpg, ext_jpeg, ext_png} : endswith(lower(file_path), e)

\* the answers analyze_image_sightengine can return: the credentials are not
\* set, the request fails, or the service answers with some data
data_clean ==
    <<"{","s","t","a","t","u","s",":","o","k","}">>

data_flagged ==
    <<"{","F","a","k","e",":","0",".","9","}">>

SightOutcomes ==
    {[status |-> "error", message |-> "SightEngine API keys missing or not set."],
     [status |-> "error", message |-> "API request failed"],
     [status |-> "ok", data |-> data_clean],
     [status |-> "ok", data |-> data_flagged]}

indicates_manipulation(img_result) ==
    /\ img_result.status = "ok"
    /\ \/ contains(lower(img_result.data), kw_manipulated)
       \/ contains(lower(img_result.data), <<"f","a","k","e">>)

\* the tier bounds taken as exclusive
fraud_tier_strict(fraud_score) ==
    IF fraud_score > HighFraud THEN "High"
    ELSE IF fraud_score > MediumFraud THEN "Medium"
    ELSE "Low"

fraud_tier(fraud_score) ==
    IF fraud_score >= HighFraud THEN "High"
    ELSE IF fraud_score >= MediumFraud THEN "Medium"
    ELSE "Low"

fraud_note(fraud_score) ==
    IF fraud_score >= HighFraud THEN "High fraud likelihood. Requires manual verification."
    ELSE IF fraud_score >= MediumFraud THEN "Moderate fraud indicators detected."
    ELSE "No major anomalies found."

\* the text channel adding its score once per matched keyword
fraud_summary_report_per_keyword(file_path, extracted_text, img_result) ==
    LET is_image == is_image_path(file_path)
        tampered == is_image /\ indicates_manipulation(img_result)
        is_flag(word) == contains(lower(extracted_text), word)
        found_flags == SelectSeq(suspicious_keywords, is_flag)
        fraud_score == (IF tampered THEN ImageScore ELSE 0)
                       + Len(found_flags) * TextScore
    IN  [image_analysis |-> IF is_image THEN img_result ELSE <<>>,
         text_analysis |-> IF found_flags # <<>> THEN [flags |-> found_flags] ELSE <<>>,
         fraud_score |-> IF fraud_score < MaxFraudScore THEN fraud_score ELSE MaxFraudScore,
         overall_fraud_risk |-> fraud_tier(fraud_score),
         anomalies |->
            when(tampered, << <<"Possible tampering detected by image analysis", <<>> >> >>)
            \o [i \in 1..Len(found_flags) |-> <<"Suspicious word found: ", found_flags[i]>>],
         note |-> fraud_note(fraud_score)]

\* img_result is the answer of analyze_image_sightengine, consulted for image
\* paths only
fraud_summary_report(file_path, extracted_text, img_result) ==
    LET is_image == is_image_path(file_path)
        tampered == is_image /\ indicates_manipulation(img_result)
        is_flag(word) == contains(lower(extracted_text), word)
        found_flags == SelectSeq(suspicious_keywords, is_flag)
        fraud_score == (IF tampered THEN ImageScore ELSE 0)
                       + (IF found_flags # <<>> THEN TextScore ELSE 0)
    IN  [image_analysis |-> IF is_image THEN img_result ELSE <<>>,
         text_analysis |-> IF found_flags # <<>> THEN [flags |-> found_flags] ELSE <<>>,
         fraud_score |-> IF fraud_score < MaxFraudScore THEN fraud_score ELSE MaxFraudScore,
         overall_fraud_risk |-> fraud_tier(fraud_score),
         anomalies |->
            when(tampered, << <<"Possible tampering detected by image analysis", <<>> >> >>)
            \o [i \in 1..Len(found_flags) |-> <<"Suspicious word found: ", found_flags[i]>>],
         note |-> fraud_note(fraud_score)]

EdgeLimit == 150

BrightnessLimit == 35

\* detect_tampering on an image whose edge density is img.edge / 1000 and
\* whose brightness deviation is img.brightness; an unreadable image makes
\* cv2 raise, which the function turns into an error entry
detect_tampering(img) ==
    IF img.corrupt THEN [error |-> "Fraud detection failed"]
    ELSE LET raw == img.edge \div 2 + img.brightness
             risk_score == IF raw < 100 THEN raw ELSE 100
             anomalies == when(img.edge > EdgeLimit, <<"High edge density (possible tampering)">>)
                          \o when(img.brightness > BrightnessLimit,
                                  <<"Brightness variation suggests editing">>)
         IN  "Fraud Risk" :> (IF risk_score < 40 THEN "Low"
                              ELSE IF risk_score < 70 THEN "Medium" ELSE "High")
             @@ "Tampering Confidence (%)" :> risk_score
             @@ "Anomalies" :> (IF anomalies = <<>> THEN <<"No visual anomalies detected">>
                                ELSE anomalies)
             @@ "Image Hash" :> img.hash

(***************************************************************************)
(* The uploads the model is run on.  A page of a PDF is its embedded text  *)
(* (emb), the text OCR recognises on its raster (ocr) and the step of      *)
(* process_page that raises on it, if any (fault).  An image is the text   *)
(* OCR recognises on it and on its inverted copy, and what the tamper      *)
(* heuristic measures on it.                                               *)
(***************************************************************************)
pan_text ==
    <<"I","N","C","O","M","E"," ","T","A","X"," ","D","E","P","A","R","T",
      "M","E","N","T"," ","J","O","H","N"," ","A","B","C","D","E","1","2",
      "3","4","F"," ","0","1","/","0","1","/","1","9","9","0">>

resume_text ==
    <<"J","o","h","n"," ","S","m","i","t","h"," ","j","o","h","n","@","x",
      ".","i","o"," ","9","8","7","6","5","4","3","2","1","0"," ","P","u",
      "n","e"," ","B","T","e","c","h"," ","S","k","i","l","l","s"," ","P",
      "y","t","h","o","n"," ","t","e","m","p","l","a","t","e">>

aadhaar_text ==
    <<"A","a","d","h","a","a","r"," ","U","I","D","A","I"," ","1","2","3",
      "4">>

plain_text ==
    <<"h","e","l","l","o"," ","w","o","r","l","d"," ","1","2">>

name_pdf ==
    <<"d",".","p","d","f">>

name_jpg ==
    <<"d",".","J","P","G">>

name_exe ==
    <<"d",".","e","x","e">>

name_dot ==
    <<".","p","d","f">>

\* t followed by a space and filler up to n characters
pad(t, n) == t \o <<" ">> \o [i \in 1..(n - Len(t) - 1) |-> "x"]

PgText ==
    [emb |-> <<"\n">> \o pad(pan_text, FastPathThreshold + 1), ocr |-> plain_text,
     fault |-> "ocr"]

PgScan ==
    [emb |-> pad(aadhaar_text, FastPathThreshold) \o <<" ">>,
     ocr |-> <<"\n">> \o resume_text \o <<NonAsciiChar, "\n">>, fault |-> "none"]

PgBad ==
    [emb |-> pad(pan_text, FastPathThreshold + 1), ocr |-> plain_text, fault |-> "load"]

PageKinds == {PgText, PgScan, PgBad}

PdfContents ==
    {[kind |-> "pdf", corrupt |-> FALSE, pages |-> p] :
        p \in UNION {[0..(n - 1) -> PageKinds] : n \in 0..MaxPages}}
    \cup {[kind |-> "pdf", corrupt |-> TRUE, pages |-> <<>>]}

ImageContents ==
    {[kind |-> "image", corrupt |-> FALSE, normal |-> pan_text \o <<"\n">>,
      inverted |-> <<>>, edge |-> 100, brightness |-> 10, hash |-> "c3d4"],
     [kind |-> "image", corrupt |-> FALSE, normal |-> <<"x", "\n">>,
      inverted |-> aadhaar_text, edge |-> 200, brightness |-> 40, hash |-> "9f00"],
     [kind |-> "image", corrupt |-> FALSE, normal |-> <<" ", "\n">>,
      inverted |-> <<"\n", NonAsciiChar>>, edge |-> 0, brightness |-> 0,
      hash |-> "0000"],
     [kind |-> "image", corrupt |-> TRUE, normal |-> <<>>, inverted |-> <<>>,
      edge |-> 0, brightness |-> 0, hash |-> "0000"]}

OtherContent == [kind |-> "other", corrupt |-> TRUE]

OnePagePdf == [kind |-> "pdf", corrupt |-> FALSE, pages |-> [i \in {0} |-> PgScan]]

Files ==
    {[filename |-> name_pdf, content |-> c] : c \in PdfContents}
    \cup {[filename |-> name_jpg, content |-> c] : c \in ImageContents}
    \cup {[filename |-> name_exe, content |-> OtherContent],
          [filename |-> name_dot, content |-> OnePagePdf]}

\* os.cpu_count(): 0 stands for None
CpuCounts == {0, 1, 4}

(***************************************************************************)
(* State.                                                                  *)
(***************************************************************************)
VARIABLES
    file,              \* the UploadFile of the request: filename and content
    cpu_count,         \* what os.cpu_count() returns on this host
    audit_collection,  \* db.audit_collection: TRUE a collection, FALSE None
    uploads,           \* the files under UPLOAD_DIR, by path
    audit_log,         \* the documents inserted into audit_collection
    pc,                \* where upload_file is
    tasks,             \* executor: page number -> "queued", "running", "done"
    futures,           \* page number -> what its future returned
    results,           \* extract_text's results list
    yielded,           \* the futures as_completed has yielded, in that order
    writes,            \* history: how often each slot of results was assigned
    text,              \* what extract_text returns
    response,          \* what upload_file returns
    run,               \* the number of the current upload of file
    previous,          \* what the previous upload of file returned
    steps,             \* history: the processing steps this upload has taken
    fn_data,           \* a structured-field map handed to the scoring functions
    fn_text,           \* the source text handed along with it
    fn_comp,           \* <<calculate_completeness_score(fn_data)>> once called
    fn_conf,           \* <<compute_field_confidence(fn_data, fn_text)>> once called
    fn_risk,           \* <<risk_classification(fn_data, ...)>> once called
    fn_path,           \* a file path handed to fraud_summary_report
    fn_img,            \* what analyze_image_sightengine answers for it
    fn_call,           \* <<the call made on fn_text, fn_path, fn_img and its result>>
    rival              \* where a second upload_file call on the same filename is

env_vars == <<file, cpu_count, audit_collection>>

pool_vars == <<tasks, futures, results, yielded, writes>>

upload_vars == <<uploads, audit_log, pc, text, response, run, previous, steps>>

fn_vars == <<fn_data, fn_text, fn_comp, fn_conf, fn_risk, fn_path, fn_img, fn_call>>

vars == <<env_vars, pool_vars, upload_vars, fn_vars, rival>>

(***************************************************************************)
(* app.py: upload_file, with the extract_text call it makes unfolded into  *)
(* the steps of the page worker pool.                                      *)
(***************************************************************************)
file_path == path_join(UPLOAD_DIR, file.filename)

ext == lower(splitext_ext(file_path))

running == {i \in DOMAIN tasks : tasks[i] = "running"}

\* JSONResponse(status_code=500, content={"error": ...})
error_response(e) == [status_code |-> 500, content |-> [error |-> e]]

is_error(r) == DOMAIN r = {"status_code", "content"}

RecordKeys ==
    {"document_type", "extracted_text", "structured_data", "summary",
     "risk_assessment", "fraud_detection", "confidence_scores", "explanation",
     "elapsed_sec"}

is_record(r) == DOMAIN r = RecordKeys

\* the record returned for an unreadable or blank file
degraded_record(elapsed) ==
    [document_type |-> "Unknown",
     extracted_text |-> <<>>,
     structured_data |-> <<>>,
     summary |-> ("Fields Extracted" :> 0 @@ "Confidence" :> "Low"),
     risk_assessment |-> ("Risk Level" :> "High" @@ "Reason" :> "Unreadable file"),
     fraud_detection |-> ("Fraud Risk" :> "Unknown"),
     confidence_scores |-> <<>>,
     explanation |-> [headline |-> "Unreadable or blank file."],
     elapsed_sec |-> elapsed]

\* an unclassified document given a second, empty field
structured_data_of_blank_note(doc_type, extracted_text) ==
    IF doc_type = "PAN Card" THEN extract_pan_details(extracted_text)
    ELSE IF doc_type = "Aadhaar Card"
    THEN "Document" :> <<"A","a","d","h","a","a","r"," ","C","a","r","d">>
         @@ "Note" :> <<"M","o","d","u","l","e"," ","p","e","n","d","i","n","g",".">>
    ELSE IF doc_type = "Resume" THEN extract_resume_details(extracted_text)
    ELSE "Document" :> <<"U","n","k","n","o","w","n">> @@ "Note" :> <<>>

structured_data_of(doc_type, extracted_text) ==
    IF doc_type = "PAN Card" THEN extract_pan_details(extracted_text)
    ELSE IF doc_type = "Aadhaar Card"
    THEN "Document" :> <<"A","a","d","h","a","a","r"," ","C","a","r","d">>
         @@ "Note" :> <<"M","o","d","u","l","e"," ","p","e","n","d","i","n","g",".">>
    ELSE IF doc_type = "Resume" THEN extract_resume_details(extracted_text)
    ELSE "Document" :> <<"U","n","k","n","o","w","n">>

\* the fields of the returned record that the classification, extraction and
\* scoring stages compute from the text alone
scored_fields(extracted_text) ==
    LET doc_type == detect_document_type(extracted_text)
        structured_data == structured_data_of(doc_type, extracted_text)
        risk_assessment == risk_classification(structured_data, doc_type)
    IN  [document_type |-> doc_type,
         extracted_text |-> extracted_text,
         structured_data |-> structured_data,
         summary |-> generate_summary(structured_data, doc_type),
         risk_assessment |-> risk_assessment,
         confidence_scores |-> compute_field_confidence(structured_data, extracted_text),
         explanation |-> explain_risk(structured_data, doc_type, risk_assessment,
                                      extracted_text)]

\* every non-empty text extract_text can return for an upload of Files
readable_texts ==
    ({normalize(join([i \in DOMAIN c.pages |-> page_text(c.pages[i])])) :
         c \in {d \in PdfContents \cup {OnePagePdf} : ~d.corrupt}}
     \cup {normalize(image_text(c)) : c \in {d \in ImageContents : ~d.corrupt}})
    \ {<<>>}

\* scored_fields of each of these texts, evaluated once per text
scored_table == {<<t, scored_fields(t)>> : t \in readable_texts}

\* scored_fields(extracted_text), looked up where it is already evaluated
scored_of(extracted_text) ==
    IF extracted_text \in readable_texts
    THEN (CHOOSE p \in scored_table : p[1] = extracted_text)[2]
    ELSE scored_fields(extracted_text)

\* fraud_summary_report and, for an image, the tamper sub-report added to it
fraud_detection_of(path, content, extracted_text, img_result) ==
    LET fraud_result == fraud_summary_report(path, extracted_text, img_result)
    IN  IF is_image_path(path)
        THEN fraud_result @@ [tamper_analysis |-> detect_tampering(content)]
        ELSE fraud_result

\* the fraud report left out of the returned record
assessment_record_no_fraud(scored, fraud_result, elapsed) ==
    scored @@ [elapsed_sec |-> elapsed]

\* the record upload_file returns for a readable file; elapsed is what the
\* clock shows at the end
assessment_record(scored, fraud_result, elapsed) ==
    scored @@ [fraud_detection |-> fraud_result, elapsed_sec |-> elapsed]

\* the answers the authenticity service may give; it is asked for images only
sight_answers(path) ==
    IF is_image_path(path) THEN SightOutcomes
    ELSE {[status |-> "error", message |-> "not called"]}

\* the entry log_audit_entry inserts
audit_entry(file_name, record) ==
    [file_name |-> file_name,
     document_type |-> record.document_type,
     summary |-> record.summary,
     risk_assessment |-> record.risk_assessment]

\* leaving the loop at the first completed future
all_consumed_first(submitted, seen) == seen # <<>> \/ submitted = {}

\* the as_completed loop is over: it has yielded every submitted future
all_consumed(submitted, seen) == {seen[k] : k \in 1..Len(seen)} = submitted

\* the blank-text check left out
is_unreadable_never(extracted_text) == FALSE

\* `if not extracted_text:` in upload_file
is_unreadable(extracted_text) == extracted_text = <<>>

\* shutil.copyfileobj into open(file_path, "wb"); open may raise
save_file ==
    /\ pc = "save"
    /\ \/ /\ uploads' = [q \in DOMAIN uploads \cup {file_path} |->
                            IF q = file_path THEN file.content ELSE uploads[q]]
          /\ steps' = steps \cup {"store"}
          /\ pc' = "extract"
          /\ UNCHANGED response
       \/ /\ response' = error_response("Internal error")
          /\ pc' = "returned"
          /\ UNCHANGED <<uploads, steps>>
    /\ UNCHANGED <<rival, env_vars, pool_vars, fn_vars, audit_log, text, run, previous>>

\* extract_text: raise ValueError(f"Unsupported file type: {ext}")
reject_extension ==
    /\ pc = "extract"
    /\ ext \notin allowed
    /\ response' = error_response("Unsupported file type")
    /\ pc' = "returned"
    /\ UNCHANGED <<rival, env_vars, pool_vars, fn_vars, uploads, audit_log, text, run,
                   previous, steps>>

\* extract_text, PDF branch up to the submission of the page tasks; a file
\* fitz cannot open leaves text = ""
open_pdf ==
    /\ pc = "extract"
    /\ ext = ext_pdf
    /\ steps' = steps \cup {"load"}
    /\ LET doc == uploads[file_path]
       IN  IF doc.corrupt
           THEN /\ text' = <<>>
                /\ pc' = "assess"
                /\ UNCHANGED pool_vars
           ELSE /\ results' = [i \in DOMAIN doc.pages |-> <<>>]
                /\ writes' = [i \in DOMAIN doc.pages |-> 0]
                /\ tasks' = [i \in DOMAIN doc.pages |-> "queued"]
                /\ futures' = <<>>
                /\ yielded' = <<>>
                /\ pc' = "pool"
                /\ UNCHANGED text
    /\ UNCHANGED <<rival, env_vars, fn_vars, uploads, audit_log, response, run, previous>>

\* a worker of the pool takes the next queued page task
start_page(i) ==
    /\ pc = "pool"
    /\ i \in DOMAIN tasks
    /\ tasks[i] = "queued"
    /\ \A j \in DOMAIN tasks : j < i => tasks[j] # "queued"
    /\ Cardinality(running) < max_workers(cpu_count)
    /\ tasks' = [tasks EXCEPT ![i] = "running"]
    /\ UNCHANGED <<rival, env_vars, fn_vars, upload_vars, futures, results, yielded, writes>>

\* process_page(i) returns
finish_page(i) ==
    /\ pc = "pool"
    /\ i \in DOMAIN tasks
    /\ tasks[i] = "running"
    /\ tasks' = [tasks EXCEPT ![i] = "done"]
    /\ futures' = [j \in DOMAIN futures \cup {i} |->
                      IF j = i THEN process_page(uploads[file_path].pages, i)
                      ELSE futures[j]]
    /\ steps' = steps \cup {"page"}
                \cup (IF page_runs_ocr(uploads[file_path].pages[i]) THEN {"ocr"} ELSE {})
    /\ UNCHANGED <<rival, env_vars, fn_vars, uploads, audit_log, pc, text, response, run,
                   previous, results, yielded, writes>>

\* one round of `for f in as_completed(futures)`: results[idx] = result_text
collect(i) ==
    /\ pc = "pool"
    /\ i \in DOMAIN tasks
    /\ tasks[i] = "done"
    /\ \A k \in 1..Len(yielded) : yielded[k] # i
    /\ LET idx == futures[i][1]
           result_text == futures[i][2]
           slot == slot_for(idx, Len(yielded))
       IN  /\ results' = [results EXCEPT ![slot] = result_text]
           /\ writes' = [writes EXCEPT ![slot] = @ + 1]
    /\ yielded' = Append(yielded, i)
    /\ UNCHANGED <<rival, env_vars, fn_vars, upload_vars, tasks, futures>>

\* the loop is over: close the document, join the slots, clean the text
merge ==
    /\ pc = "pool"
    /\ all_consumed(DOMAIN tasks, yielded)
    /\ text' = normalize(join(results))
    /\ pc' = "assess"
    /\ UNCHANGED <<rival, env_vars, fn_vars, pool_vars, uploads, audit_log, response, run,
                   previous, steps>>

\* extract_text, image branch; a file PIL cannot open leaves text = ""
ocr_image ==
    /\ pc = "extract"
    /\ ext \in allowed \ {ext_pdf}
    /\ LET img == uploads[file_path]
       IN  text' = IF img.corrupt THEN <<>> ELSE normalize(image_text(img))
    /\ steps' = steps \cup {"load", "ocr"}
    /\ pc' = "assess"
    /\ UNCHANGED <<rival, env_vars, fn_vars, pool_vars, uploads, audit_log, response, run,
                   previous>>

\* upload_file from the return of extract_text to its own return.  A stage
\* that raises ends in the handler's except clause; a failing insert is
\* swallowed by log_audit_entry.  The pool and the results list were locals
\* of extract_text.
assess ==
    /\ pc = "assess"
    /\ pc' = "returned"
    /\ \E extracted_text \in {strip(text)} :
         IF is_unreadable(extracted_text)
         THEN \E elapsed \in 0..MaxElapsed :
                /\ response' = degraded_record(elapsed)
                /\ UNCHANGED <<audit_log, steps>>
         ELSE \E scored \in {scored_of(extracted_text)},
                 img_result \in sight_answers(file_path) :
                \E fraud_result \in {fraud_detection_of(file_path, uploads[file_path],
                                                        extracted_text, img_result)},
                   elapsed \in 0..MaxElapsed,
                   fault \in {"none", "stage", "insert"} :
                  \E record \in {assessment_record(scored, fraud_result, elapsed)} :
                    IF fault = "stage"
                    THEN /\ response' = error_response("Internal error")
                         /\ steps' = steps \cup {"classify"}
                         /\ UNCHANGED audit_log
                    ELSE /\ response' = record
                         /\ steps' = steps \cup {"classify", "extract", "score", "audit"}
                         /\ audit_log' =
                               IF audit_collection /\ fault = "none"
                               THEN Append(audit_log, audit_entry(file.filename, record))
                               ELSE audit_log
    /\ tasks' = <<>>
    /\ futures' = <<>>
    /\ results' = <<>>
    /\ yielded' = <<>>
    /\ writes' = <<>>
    /\ UNCHANGED <<rival, env_vars, fn_vars, uploads, text, run, previous>>

\* the client uploads the same file again
upload_again ==
    /\ pc = "returned"
    /\ run < MaxRuns
    /\ run' = run + 1
    /\ previous' = response
    /\ response' = <<>>
    /\ pc' = "save"
    /\ text' = <<>>
    /\ steps' = {}
    /\ UNCHANGED <<rival, env_vars, fn_vars, pool_vars, uploads, audit_log>>

Init ==
    /\ file \in Files
    /\ cpu_count \in CpuCounts
    /\ audit_collection \in BOOLEAN
    /\ uploads = <<>>
    /\ audit_log = <<>>
    /\ pc = "save"
    /\ tasks = <<>>
    /\ futures = <<>>
    /\ results = <<>>
    /\ yielded = <<>>
    /\ writes = <<>>
    /\ text = <<>>
    /\ response = <<>>
    /\ run = 1
    /\ previous = <<>>
    /\ steps = {}
    /\ fn_data = <<>>
    /\ fn_text = <<>>
    /\ fn_comp = <<>>
    /\ fn_conf = <<>>
    /\ fn_risk = <<>>
    /\ fn_path = <<>>
    /\ fn_img = <<>>
    /\ fn_call = <<>>
    /\ rival = "absent"

Next ==
    \/ save_file
    \/ reject_extension
    \/ open_pdf
    \/ \E i \in 0..(MaxPages - 1) : start_page(i)
    \/ \E i \in 0..(MaxPages - 1) : finish_page(i)
    \/ \E i \in 0..(MaxPages - 1) : collect(i)
    \/ merge
    \/ ocr_image
    \/ assess
    \/ upload_again

Spec == Init /\ [][Next]_vars

(***************************************************************************)
(* The scoring functions on their own: a structured-field map and a source *)
(* text are drawn, and each function is applied to them once.              *)
(***************************************************************************)
score_text ==
    <<"a","b","c","d","e","1","2","3","4","f"," ","0","1","/","0","1","/",
      "1","9","9","0">>

shape_keys == {"PAN Number", "Date of Birth", "Email", "Phone"}

shape_values ==
    {<<"A","B","C","D","E","1","2","3","4","F">>,
     <<"a","b","c","d","e","1","2","3","4","f">>,
     <<"0","1","/","0","1","/","1","9","9","0">>,
     <<"a","@","b",".","c">>,
     <<"9","8","7","6","5","4","3","2","1","0">>,
     <<>>,
     <<" ">>}

ShapeMaps == UNION {[K -> shape_values] : K \in SUBSET shape_keys}

\* a map of n fields of which the first k are filled and the others hold the
\* empty or a blank value
count_map(n, k) ==
    [key \in {ToString(i) : i \in 1..n} |->
        IF key \in {ToString(i) : i \in 1..k} THEN <<"x">>
        ELSE IF key \in {ToString(2 * i) : i \in 1..n} THEN <<" ">>
        ELSE <<>>]

CountMaps == UNION {{count_map(n, k) : k \in 0..n} : n \in 0..MaxFields}

DocumentCategory == {"PAN Card", "Aadhaar Card", "Resume", "Unknown"}

call_completeness ==
    /\ pc = "off"
    /\ fn_comp = <<>>
    /\ fn_comp' = <<calculate_completeness_score(fn_data)>>
    /\ UNCHANGED <<rival, env_vars, pool_vars, upload_vars, fn_data, fn_text, fn_conf, fn_risk,
                   fn_path, fn_img, fn_call>>

call_confidence ==
    /\ pc = "off"
    /\ fn_conf = <<>>
    /\ fn_conf' = <<compute_field_confidence(fn_data, fn_text)>>
    /\ UNCHANGED <<rival, env_vars, pool_vars, upload_vars, fn_data, fn_text, fn_comp, fn_risk,
                   fn_path, fn_img, fn_call>>

call_risk ==
    /\ pc = "off"
    /\ fn_risk = <<>>
    /\ \E document_type \in DocumentCategory :
          fn_risk' = <<risk_classification(fn_data, document_type)>>
    /\ UNCHANGED <<rival, env_vars, pool_vars, upload_vars, fn_data, fn_text, fn_comp, fn_conf,
                   fn_path, fn_img, fn_call>>

InitScore ==
    /\ \/ fn_data \in ShapeMaps /\ fn_text \in {<<>>, score_text}
       \/ fn_data \in CountMaps /\ fn_text = <<>>
    /\ fn_comp = <<>>
    /\ fn_conf = <<>>
    /\ fn_risk = <<>>
    /\ fn_path = <<>>
    /\ fn_img = <<>>
    /\ fn_call = <<>>
    /\ rival = "absent"
    /\ file = [filename |-> name_exe, content |-> OtherContent]
    /\ cpu_count = 0
    /\ audit_collection = FALSE
    /\ uploads = <<>>
    /\ audit_log = <<>>
    /\ pc = "off"
    /\ tasks = <<>>
    /\ futures = <<>>
    /\ results = <<>>
    /\ yielded = <<>>
    /\ writes = <<>>
    /\ text = <<>>
    /\ response = <<>>
    /\ run = 1
    /\ previous = <<>>
    /\ steps = {}

NextScore ==
    \/ call_completeness
    \/ call_confidence
    \/ call_risk

SpecScore == InitScore /\ [][NextScore]_vars

(***************************************************************************)
(* The text functions on their own: a text, a file path, an answer of the  *)
(* authenticity service and a structured-field map are drawn, and one of   *)
(* the functions is applied to them.                                       *)
(***************************************************************************)
\* the most phrases a drawn text is made of
MaxPhrases == 2

phrases ==
    {
      <<"I","N","C","O","M","E"," ","T","A","X"," ","D","E","P","A","R","T","M",
        "E","N","T">>,
      <<"p","e","r","m","a","n","e","n","t"," ","a","c","c","o","u","n","t"," ",
        "n","u","m","b","e","r">>,
      <<"A","B","C","D","E","1","2","3","4","F">>,
      <<"0","1","/","0","1","/","1","9","9","0">>,
      <<"A","a","d","h","a","a","r">>,
      <<"U","I","D","A","I"," ","1","2","3","4">>,
      <<"S","k","i","l","l","s"," ","P","y","t","h","o","n">>,
      <<"J","o","h","n"," ","S","m","i","t","h">>,
      <<"j","o","h","n","@","x",".","i","o"," ","9","8","7","6","5","4","3","2",
        "1","0">>,
      <<"B",".","E",".","\n","M","u","m","b","a","i">>,
      <<"f","a","k","e">>,
      <<"e","d","i","t","e","d"," ","t","e","m","p","l","a","t","e">>,
      <<"l","i","n","k","e","d","i","n"," ","i","n","t","e","r","n">>,
      <<"h","i">>}

\* the phrases ps[1], ps[2], ... with one space between them
RECURSIVE spaced(_)
spaced(ps) ==
    IF ps = <<>> THEN <<>>
    ELSE IF Len(ps) = 1 THEN ps[1]
    ELSE ps[1] \o <<" ">> \o spaced(Tail(ps))

Texts == {spaced(ps) : ps \in UNION {[1..n -> phrases] : n \in 0..MaxPhrases}}

FraudTexts ==
    {<<>>,
     <<"h","e","l","l","o">>,
     <<"F","A","K","E">>,
     <<"u","n","e","d","i","t","e","d">>,
     <<"f","a","k","e"," ","d","u","p","l","i","c","a","t","e">>,
     <<"t","a","m","p","e","r","e","d"," ","t","e","m","p","l","a","t","e"," ",
       "e","d","i","t","e","d"," ","f","a","k","e"," ","d","u","p","l","i","c",
       "a","t","e">>}

FraudPaths ==
    {path_join(UPLOAD_DIR, n) :
        n \in {name_pdf, name_jpg, <<"d",".","j","p","e","g">>, <<"d",".","p","n","g">>,
               <<"j","p","g">>}}

\* the answer when analyze_image_sightengine is not called
NotCalled == [status |-> "error", message |-> "not called"]

explain_keys == {"Name", "PAN Number", "Email"}

ExplainMaps == UNION {[K -> shape_values] : K \in SUBSET explain_keys}

\* a text of LowTextLen characters and more
long_text == pad(score_text, LowTextLen)

call_fraud ==
    /\ pc = "off"
    /\ fn_call = <<>>
    /\ fn_call' = <<[fn |-> "fraud_summary_report",
                     result |-> fraud_summary_report(fn_path, fn_text, fn_img)]>>
    /\ UNCHANGED <<rival, env_vars, pool_vars, upload_vars, fn_data, fn_text, fn_comp,
                   fn_conf, fn_risk, fn_path, fn_img>>

call_detect ==
    /\ pc = "off"
    /\ fn_call = <<>>
    /\ fn_call' = <<[fn |-> "detect_document_type",
                     result |-> detect_document_type(fn_text)]>>
    /\ UNCHANGED <<rival, env_vars, pool_vars, upload_vars, fn_data, fn_text, fn_comp,
                   fn_conf, fn_risk, fn_path, fn_img>>

call_pan ==
    /\ pc = "off"
    /\ fn_call = <<>>
    /\ fn_call' = <<[fn |-> "extract_pan_details",
                     result |-> extract_pan_details(fn_text)]>>
    /\ UNCHANGED <<rival, env_vars, pool_vars, upload_vars, fn_data, fn_text, fn_comp,
                   fn_conf, fn_risk, fn_path, fn_img>>

call_resume ==
    /\ pc = "off"
    /\ fn_call = <<>>
    /\ fn_call' = <<[fn |-> "extract_resume_details",
                     result |-> extract_resume_details(fn_text)]>>
    /\ UNCHANGED <<rival, env_vars, pool_vars, upload_vars, fn_data, fn_text, fn_comp,
                   fn_conf, fn_risk, fn_path, fn_img>>

\* explain_risk on the risk assessment risk_classification gives for the map
call_explain ==
    /\ pc = "off"
    /\ fn_call = <<>>
    /\ \E doc_type \in DocumentCategory :
         \E risk_assessment \in {risk_classification(fn_data, doc_type)} :
            fn_call' = <<[fn |-> "explain_risk",
                          doc_type |-> doc_type,
                          risk_assessment |-> risk_assessment,
                          result |-> explain_risk(fn_data, doc_type, risk_assessment,
                                                  fn_text)]>>
    /\ UNCHANGED <<rival, env_vars, pool_vars, upload_vars, fn_data, fn_text, fn_comp,
                   fn_conf, fn_risk, fn_path, fn_img>>

\* the classification, extraction and risk stages of upload_file on the text
\* extract_text returns for a readable file: normalised, stripped, not empty
call_pipeline_risk ==
    /\ pc = "off"
    /\ fn_call = <<>>
    /\ \E extracted_text \in {strip(normalize(fn_text))} :
         /\ ~is_unreadable(extracted_text)
         /\ \E doc_type \in {detect_document_type(extracted_text)} :
              \E structured_data \in {structured_data_of(doc_type, extracted_text)} :
                 fn_call' = <<[fn |-> "risk_classification",
                               extracted_text |-> extracted_text,
                               doc_type |-> doc_type,
                               structured_data |-> structured_data,
                               result |-> risk_classification(structured_data,
                                                              doc_type)]>>
    /\ UNCHANGED <<rival, env_vars, pool_vars, upload_vars, fn_data, fn_text, fn_comp,
                   fn_conf, fn_risk, fn_path, fn_img>>

InitText ==
    /\ \/ /\ fn_text \in Texts
          /\ fn_data = <<>>
          /\ fn_path = path_join(UPLOAD_DIR, name_pdf)
          /\ fn_img = NotCalled
       \/ /\ fn_text \in FraudTexts
          /\ fn_data = <<>>
          /\ fn_path \in FraudPaths
          /\ fn_img \in SightOutcomes
       \/ /\ fn_text \in {score_text, long_text}
          /\ fn_data \in ExplainMaps
          /\ fn_path = path_join(UPLOAD_DIR, name_pdf)
          /\ fn_img = NotCalled
    /\ fn_call = <<>>
    /\ fn_comp = <<>>
    /\ fn_conf = <<>>
    /\ fn_risk = <<>>
    /\ rival = "absent"
    /\ file = [filename |-> name_exe, content |-> OtherContent]
    /\ cpu_count = 0
    /\ audit_collection = FALSE
    /\ uploads = <<>>
    /\ audit_log = <<>>
    /\ pc = "off"
    /\ tasks = <<>>
    /\ futures = <<>>
    /\ results = <<>>
    /\ yielded = <<>>
    /\ writes = <<>>
    /\ text = <<>>
    /\ response = <<>>
    /\ run = 1
    /\ previous = <<>>
    /\ steps = {}

NextText ==
    \/ call_fraud
    \/ call_detect
    \/ call_pan
    \/ call_resume
    \/ call_explain
    \/ call_pipeline_risk

SpecText == InitText /\ [][NextText]_vars

(***************************************************************************)
(* extract_text on longer PDFs: the page worker pool from the upload to    *)
(* the merge, on hosts with fewer and with more processors than the pool   *)
(* may use.  Every page task terminates and the pool's threads and the    *)
(* loop over the completed futures keep running, so a step of theirs that  *)
(* stays possible is eventually taken.                                     *)
(***************************************************************************)
\* the most pages a PDF of this part has
MaxPoolPages == 5

\* a scanned page on which OCR raises
PgFaint ==
    [emb |-> plain_text, ocr |-> resume_text, fault |-> "ocr"]

pool_kinds == <<PgScan, PgText, PgFaint, PgBad>>

PoolPdfs ==
    {[kind |-> "pdf", corrupt |-> FALSE,
      pages |-> [i \in 0..(n - 1) |-> pool_kinds[(i % Len(pool_kinds)) + 1]]] :
        n \in 0..MaxPoolPages}

PoolCpuCounts == {0, 1, 3, 8}

InitPool ==
    /\ file \in {[filename |-> name_pdf, content |-> c] : c \in PoolPdfs}
    /\ cpu_count \in PoolCpuCounts
    /\ audit_collection = TRUE
    /\ uploads = <<>>
    /\ audit_log = <<>>
    /\ pc = "save"
    /\ tasks = <<>>
    /\ futures = <<>>
    /\ results = <<>>
    /\ yielded = <<>>
    /\ writes = <<>>
    /\ text = <<>>
    /\ response = <<>>
    /\ run = 1
    /\ previous = <<>>
    /\ steps = {}
    /\ fn_data = <<>>
    /\ fn_text = <<>>
    /\ fn_comp = <<>>
    /\ fn_conf = <<>>
    /\ fn_risk = <<>>
    /\ fn_path = <<>>
    /\ fn_img = <<>>
    /\ fn_call = <<>>
    /\ rival = "absent"

\* a step of a pool thread or of the as_completed loop
pool_step ==
    \/ \E i \in 0..(MaxPoolPages - 1) : start_page(i)
    \/ \E i \in 0..(MaxPoolPages - 1) : finish_page(i)
    \/ \E i \in 0..(MaxPoolPages - 1) : collect(i)

NextPool ==
    \/ save_file
    \/ open_pdf
    \/ pool_step
    \/ merge

SpecPool == InitPool /\ [][NextPool]_vars /\ WF_vars(pool_step)

(***************************************************************************)
(* Two calls of upload_file at the same time, served by two workers of the *)
(* server, both uploads carrying the filename d.pdf.  The first call is    *)
(* followed step by step; of the second one the step that touches what the *)
(* first one uses is kept: it stores its bytes under UPLOAD_DIR.           *)
(***************************************************************************)
\* what extract_text returns for a file of this content that nothing else
\* writes to
text_of(content) ==
    IF content.corrupt THEN <<>>
    ELSE IF content.kind = "pdf"
    THEN normalize(join([i \in DOMAIN content.pages |-> page_text(content.pages[i])]))
    ELSE normalize(image_text(content))

\* the bytes the second upload carries
RivalContents == {OnePagePdf}

\* the second call's open(file_path, "wb") and copyfileobj: same filename,
\* same path
rival_save ==
    /\ rival = "waiting"
    /\ pc \in {"save", "extract"}
    /\ \E c \in RivalContents :
          uploads' = [q \in DOMAIN uploads \cup {file_path} |->
                         IF q = file_path THEN c ELSE uploads[q]]
    /\ rival' = "saved"
    /\ UNCHANGED <<env_vars, pool_vars, fn_vars, audit_log, pc, text, response, run,
                   previous, steps>>

InitPair ==
    /\ file \in {[filename |-> name_pdf, content |-> c] : c \in PdfContents}
    /\ cpu_count \in CpuCounts
    /\ audit_collection = TRUE
    /\ rival = "waiting"
    /\ uploads = <<>>
    /\ audit_log = <<>>
    /\ pc = "save"
    /\ tasks = <<>>
    /\ futures = <<>>
    /\ results = <<>>
    /\ yielded = <<>>
    /\ writes = <<>>
    /\ text = <<>>
    /\ response = <<>>
    /\ run = 1
    /\ previous = <<>>
    /\ steps = {}
    /\ fn_data = <<>>
    /\ fn_text = <<>>
    /\ fn_comp = <<>>
    /\ fn_conf = <<>>
    /\ fn_risk = <<>>
    /\ fn_path = <<>>
    /\ fn_img = <<>>
    /\ fn_call = <<>>

NextPair ==
    \/ save_file
    \/ rival_save
    \/ open_pdf
    \/ \E i \in 0..(MaxPages - 1) : start_page(i)
    \/ \E i \in 0..(MaxPages - 1) : finish_page(i)
    \/ \E i \in 0..(MaxPages - 1) : collect(i)
    \/ merge
    \/ assess

SpecPair == InitPair /\ [][NextPair]_vars

(***************************************************************************)
(* Properties.                                                             *)
(***************************************************************************)

\* C1: page-order invariance.  When extract_text returns for a PDF, its text is
\* the normalised join of page 0's text, page 1's text, ... in index order,
\* whatever the order in which the page workers completed.
C1_page_order_invariance ==
    (/\ pc = "assess"
     /\ ext = ext_pdf
     /\ ~uploads[file_path].corrupt)
    => LET pages == uploads[file_path].pages
       IN  text = normalize(join([i \in DOMAIN pages |-> page_text(pages[i])]))

\* two pages with different texts were merged after page 1 completed first
C1_witness ==
    /\ pc = "assess"
    /\ Len(yielded) >= 2
    /\ yielded[1] > yielded[2]
    /\ results[yielded[1]] # results[yielded[2]]
    /\ results[yielded[1]] # <<>>
    /\ results[yielded[2]] # <<>>
    /\ text # <<>>

\* C2: a page that fails leaves the empty string in its own slot only; every
\* other slot holds its page's own text, every page task has run to completion
\* and extract_text returns the merge of the slots.
C2_page_failure_is_local ==
    (/\ pc = "assess"
     /\ ext = ext_pdf
     /\ ~uploads[file_path].corrupt)
    => LET pages == uploads[file_path].pages
           fast(i) == Len(strip(pages[i].emb)) > FastPathThreshold
           fails(i) == \/ pages[i].fault = "load"
                       \/ pages[i].fault = "ocr" /\ ~fast(i)
           own(i) == IF fast(i) THEN strip(pages[i].emb) ELSE strip(pages[i].ocr)
       IN  /\ \A i \in DOMAIN pages :
                /\ tasks[i] = "done"
                /\ results[i] = IF fails(i) THEN <<>> ELSE own(i)
           /\ text = normalize(join(results))

\* a PDF with a failing page and a readable page has been merged
C2_witness ==
    /\ pc = "assess"
    /\ \E i, j \in DOMAIN results :
          /\ uploads[file_path].pages[i].fault = "load"
          /\ results[i] = <<>>
          /\ results[j] # <<>>
    /\ text # <<>>

\* C3: the merge is a barrier.  The step that merges the slots is taken only
\* when every page task is done, and then results has one slot per page, each
\* assigned exactly once, with the text of the page of the same index.
C3_merge_is_barrier ==
    [][(pc = "pool" /\ pc' = "assess")
        => LET pages == uploads[file_path].pages
           IN  /\ DOMAIN results = DOMAIN pages
               /\ \A i \in DOMAIN pages :
                    /\ tasks[i] = "done"
                    /\ writes[i] = 1
                    /\ results[i] = page_text(pages[i])]_vars

\* a PDF of at least two pages has been merged
C3_witness ==
    /\ pc = "assess"
    /\ Cardinality(DOMAIN tasks) >= 2
    /\ \A i \in DOMAIN tasks : tasks[i] = "done" /\ writes[i] = 1

\* C4: an upload with an unsupported extension is rejected before any
\* processing: when the unsupported-format error is the response, nothing has
\* been stored, loaded, read, recognised, classified, scored or logged.
C4_reject_before_processing ==
    (is_error(response) /\ response.content.error = "Unsupported file type")
    => steps = {}

\* C5: an upload with an allowed extension whose extraction failed or gave no
\* text returns the degraded record, without error, and no classification,
\* extraction, scoring or logging stage has run.
C5_unreadable_degrades ==
    (/\ pc = "returned"
     /\ ext \in allowed
     /\ "load" \in steps
     /\ strip(text) = <<>>)
    => /\ is_record(response)
       /\ response.document_type = "Unknown"
       /\ response.extracted_text = <<>>
       /\ DOMAIN response.structured_data = {}
       /\ DOMAIN response.confidence_scores = {}
       /\ response.risk_assessment["Risk Level"] = "High"
       /\ response.fraud_detection["Fraud Risk"] = "Unknown"
       /\ steps \cap {"classify", "extract", "score", "audit"} = {}

\* the upload of a file the extraction could not open has returned
C5_witness ==
    /\ pc = "returned"
    /\ ext \in allowed
    /\ "load" \in steps
    /\ uploads[file_path].corrupt
    /\ is_record(response)

\* C6: every call of upload_file returns either a record with the nine keys
\* or the structured error object, whatever failed inside.
C6_record_or_error ==
    /\ pc = "returned" => (is_record(response) # is_error(response))
    /\ pc \in {"save", "extract", "pool", "assess"} => DOMAIN response = {}

\* a scoring stage has failed and the call has returned the error object
C6_witness ==
    /\ pc = "returned"
    /\ "classify" \in steps
    /\ is_error(response)

\* C7 as stated: two uploads of the same bytes and filename return records
\* that are identical in every field.
C7_idempotent ==
    (/\ run = 2
     /\ pc = "returned"
     /\ is_record(previous)
     /\ is_record(response))
    => response = previous

\* C7 amended: the two records agree in every field but elapsed_sec and, for
\* an image, the fraud report, which holds the authenticity service's answer.
C7_idempotent_but_clock ==
    (/\ run = 2
     /\ pc = "returned"
     /\ is_record(previous)
     /\ is_record(response))
    => /\ \A key \in RecordKeys \ {"elapsed_sec", "fraud_detection"} :
             response[key] = previous[key]
       /\ ~is_image_path(file_path) => response.fraud_detection = previous.fraud_detection

\* a two-page PDF has been assessed twice, the clock showing different times
C7_witness ==
    /\ run = 2
    /\ pc = "returned"
    /\ is_record(previous)
    /\ is_record(response)
    /\ ext = ext_pdf
    /\ Cardinality(DOMAIN uploads[file_path].pages) >= 2
    /\ response.extracted_text # <<>>
    /\ response.elapsed_sec # previous.elapsed_sec

\* C8: every confidence is an integer in 0..100, and the confidence of an
\* empty or whitespace-only value is 0.
C8_confidence_range_blank_zero ==
    fn_conf # <<>>
    => \A key \in DOMAIN fn_data :
          /\ fn_conf[1][key] \in 0..100
          /\ strip(fn_data[key]) = <<>> => fn_conf[1][key] = 0

\* C9: the completeness of a map of n > 0 fields of which k are filled is
\* floor(100 * k / n), and 0 for the empty map.
C9_completeness_floor ==
    fn_comp # <<>>
    => LET n == Cardinality(DOMAIN fn_data)
           k == Cardinality({key \in DOMAIN fn_data : strip(fn_data[key]) # <<>>})
       IN  fn_comp[1] = IF n = 0 THEN 0 ELSE (100 * k) \div n

\* C10: the risk level is Low exactly when the completeness is at least 80
\* and there is no anomaly, Medium exactly when it is not Low and the
\* completeness is at least 50, High exactly when the completeness is below
\* 50; completeness and anomalies are the ones the returned record reports.
C10_risk_tiers ==
    fn_risk # <<>>
    => LET level == fn_risk[1]["Risk Level"]
           completeness == comp_pct_of(fn_risk[1])
           clean == fn_risk[1]["Detected Anomalies"] = <<"None">>
       IN  /\ comp_pct_of(fn_risk[1]) = calculate_completeness_score(fn_data)
           /\ clean <=> detect_anomalies(fn_data) = <<>>
           /\ level = "Low" <=> (completeness >= 80 /\ clean)
           /\ level = "Medium" <=> (~(completeness >= 80 /\ clean) /\ completeness >= 50)
           /\ level = "High" <=> completeness < 50
           /\ (completeness >= 80 /\ ~clean) => level = "Medium"

\* a complete map with an anomaly has been classified
C10_witness ==
    /\ fn_risk # <<>>
    /\ comp_pct_of(fn_risk[1]) >= 80
    /\ fn_risk[1]["Detected Anomalies"] # <<"None">>
    /\ fn_risk[1]["Risk Level"] = "Medium"

\* C11: the fraud score of a report is min(100, image part + text part): the
\* image part is 50 for a .jpg/.jpeg/.png path whose authenticity answer
\* indicates manipulation and 0 otherwise, the text part is 40 when at least
\* one suspicious keyword occurs in the text and 0 otherwise, however many
\* occur; each keyword that occurs is listed in the anomalies.
C11_fraud_score_additive ==
    (fn_call # <<>> /\ fn_call[1].fn = "fraud_summary_report")
    => LET report == fn_call[1].result
           image_part == IF is_image_path(fn_path) /\ indicates_manipulation(fn_img)
                         THEN 50 ELSE 0
           matched == {k \in 1..Len(suspicious_keywords) :
                          contains(lower(fn_text), suspicious_keywords[k])}
           text_part == IF matched # {} THEN 40 ELSE 0
           total == image_part + text_part
       IN  /\ report.fraud_score = IF total < 100 THEN total ELSE 100
           /\ \A k \in matched :
                 \E a \in 1..Len(report.anomalies) :
                    report.anomalies[a] = <<"Suspicious word found: ", suspicious_keywords[k]>>

\* a flagged image whose text holds several suspicious keywords was reported
C11_witness ==
    /\ fn_call # <<>>
    /\ fn_call[1].fn = "fraud_summary_report"
    /\ is_image_path(fn_path)
    /\ indicates_manipulation(fn_img)
    /\ Cardinality({k \in 1..Len(suspicious_keywords) :
                       contains(lower(fn_text), suspicious_keywords[k])}) >= 2
    /\ fn_call[1].result.fraud_score = 90
    /\ Len(fn_call[1].result.anomalies) >= 3

\* C12: in every report the tier agrees with the reported score: High exactly
\* when fraud_score >= 70, Medium exactly when 40 <= fraud_score < 70, Low
\* exactly when fraud_score < 40, and the note is the advisory of that tier.
C12_tier_matches_score ==
    (fn_call # <<>> /\ fn_call[1].fn = "fraud_summary_report")
    => LET report == fn_call[1].result
           score == report.fraud_score
           tier == report.overall_fraud_risk
       IN  /\ tier = "High" <=> score >= 70
           /\ tier = "Medium" <=> (score >= 40 /\ score < 70)
           /\ tier = "Low" <=> score < 40
           /\ tier = "High"
                 => report.note = "High fraud likelihood. Requires manual verification."
           /\ tier = "Medium" => report.note = "Moderate fraud indicators detected."
           /\ tier = "Low" => report.note = "No major anomalies found."

\* a report was returned whose score is the lower bound of the Medium tier
C12_witness ==
    /\ fn_call # <<>>
    /\ fn_call[1].fn = "fraud_summary_report"
    /\ fn_call[1].result.fraud_score = 40
    /\ fn_call[1].result.overall_fraud_risk = "Medium"

\* C13: when the authenticity analysis of an image fails or is unavailable,
\* the report is returned, its score holds no image part, and its note is the
\* explanation that the image analysis was unavailable.
C13_unavailable_note ==
    (/\ fn_call # <<>>
     /\ fn_call[1].fn = "fraud_summary_report"
     /\ is_image_path(fn_path)
     /\ fn_img.status = "error")
    => LET report == fn_call[1].result
       IN  /\ report.fraud_score \in {0, 40}
           /\ report.note \in {fn_img.message, "Image analysis unavailable"}

\* C14: detect_document_type applies its rules in a fixed priority, the first
\* match winning: a text of fewer than 10 characters is Unknown whatever it
\* holds; otherwise a PAN phrase gives PAN Card, otherwise an Aadhaar keyword
\* gives Aadhaar Card, otherwise a resume keyword gives Resume, otherwise the
\* text is Unknown.  The result is one of the four categories.
C14_classifier_priority ==
    (fn_call # <<>> /\ fn_call[1].fn = "detect_document_type")
    => LET category == fn_call[1].result
           low == lower(fn_text)
           short == Len(fn_text) < 10
           pan == contains(low, kw_income_tax) \/ contains(low, kw_permanent)
           aadhaar == contains(low, kw_aadhaar) \/ contains(low, kw_uidai)
           resume == \E w \in resume_keywords : contains(low, w)
       IN  /\ category \in DocumentCategory
           /\ short => category = "Unknown"
           /\ (~short /\ pan) => category = "PAN Card"
           /\ (~short /\ ~pan /\ aadhaar) => category = "Aadhaar Card"
           /\ (~short /\ ~pan /\ ~aadhaar /\ resume) => category = "Resume"
           /\ (~short /\ ~pan /\ ~aadhaar /\ ~resume) => category = "Unknown"

\* a text holding a PAN phrase and an Aadhaar keyword was classified PAN Card
C14_witness ==
    /\ fn_call # <<>>
    /\ fn_call[1].fn = "detect_document_type"
    /\ contains(lower(fn_text), kw_income_tax)
    /\ contains(lower(fn_text), kw_aadhaar)
    /\ fn_call[1].result = "PAN Card"

\* C15: the audit collection receives exactly one entry per processed
\* document: a call that returns a record, the degraded record included,
\* appends one entry, a call that returns the error object appends none, and
\* no step changes or removes an entry that is there.
C15_one_entry_per_record ==
    [][LET returns == pc # "returned" /\ pc' = "returned"
           added == IF returns /\ is_record(response') THEN 1 ELSE 0
       IN  /\ Len(audit_log') = Len(audit_log) + added
           /\ SubSeq(audit_log', 1, Len(audit_log)) = audit_log]_vars

\* C16: the maps extract_pan_details and extract_resume_details return hold
\* only the fields that matched: every value is non-empty and not blank, a
\* field is a key exactly when its own pattern matches the text, whatever
\* the other fields do, and no other key occurs.
C16_only_matched_fields ==
    (fn_call # <<>> /\ fn_call[1].fn \in {"extract_pan_details", "extract_resume_details"})
    => LET data == fn_call[1].result
           has(key) == key \in DOMAIN data
           t == collapse_ws(fn_text)
       IN  /\ \A key \in DOMAIN data : strip(data[key]) # <<>>
           /\ fn_call[1].fn = "extract_pan_details"
                 => /\ DOMAIN data \subseteq {"PAN Number", "Date of Birth", "Name"}
                    /\ has("PAN Number") <=> search_pan(fn_text) # <<>>
                    /\ has("Date of Birth") <=> search_dob(fn_text) # <<>>
                    /\ has("Name") <=> \E p \in split_lines(fn_text) : is_name_candidate(p[2])
           /\ fn_call[1].fn = "extract_resume_details"
                 => /\ DOMAIN data \subseteq {"Name", "Email", "Phone", "Location",
                                              "Education", "Skills"}
                    /\ has("Name") <=> search_name(t) # <<>>
                    /\ has("Email") <=> search_email(t) # <<>>
                    /\ has("Phone") <=> search_phone(t) # <<>>
                    /\ has("Location") <=> search_words(t, locations, TRUE) # <<>>
                    /\ has("Education") <=> search_words(t, degrees, FALSE) # <<>>
                    /\ has("Skills") <=> \E k \in 1..Len(skills_keywords) :
                                            skill_found(t, skills_keywords[k])

\* a resume map was returned with some of its fields and without others
C16_witness ==
    /\ fn_call # <<>>
    /\ fn_call[1].fn = "extract_resume_details"
    /\ {"Email", "Phone"} \subseteq DOMAIN fn_call[1].result
    /\ DOMAIN fn_call[1].result \cap {"Name", "Location", "Skills"} = {}

\* C17: the reasons of explain_risk come in a fixed order: first the
\* completeness commentary of the tier (>= 90, >= 60, below), then the
\* commentary of the document category, then the anomaly echo, present
\* exactly when the risk assessment lists anomalies other than None, then the
\* low-text caveat, present exactly when the text has fewer than 40
\* characters; the headline is the risk level and the first three reasons, or
\* all of them when there are fewer.
C17_reasons_order ==
    (fn_call # <<>> /\ fn_call[1].fn = "explain_risk")
    => LET reasons == fn_call[1].result.reasons
           n == Len(reasons)
           comp_pct == calculate_completeness_score(fn_data)
           anoms == fn_call[1].risk_assessment["Detected Anomalies"]
           echo == IF anoms # <<"None">> THEN 1 ELSE 0
           caveat == IF Len(fn_text) < 40 THEN 1 ELSE 0
           last_category == n - echo - caveat
           commentary ==
               IF fn_call[1].doc_type = "PAN Card"
               THEN {"Missing key PAN fields: ",
                     "All key PAN fields were successfully detected.",
                     "PAN format appears invalid.",
                     "Date of Birth format appears unusual."}
               ELSE IF fn_call[1].doc_type = "Aadhaar Card"
               THEN {"Basic Aadhaar checks applied.", "Masked Aadhaar number detected."}
               ELSE IF fn_call[1].doc_type = "Resume"
               THEN {"Resume basics missing: ",
                     "Resume key contact details successfully extracted.",
                     "Skills section detected and parsed."}
               ELSE {}
       IN  /\ last_category >= 1
           /\ reasons[1][1] = IF comp_pct >= 90 THEN "Most mandatory fields are present."
                              ELSE IF comp_pct >= 60 THEN "Some required fields are missing."
                              ELSE "Many fields are missing or unreadable."
           /\ \A i \in 2..last_category : reasons[i][1] \in commentary
           /\ commentary # {} => last_category >= 2
           /\ echo = 1 => reasons[last_category + 1] = <<"Detected anomalies: ", anoms>>
           /\ caveat = 1
                 => reasons[n][1] = "Very low text content - likely a cropped or noisy image."
           /\ fn_call[1].result.headline =
                 <<fn_call[1].risk_assessment["Risk Level"], "Key factors: ",
                   SubSeq(reasons, 1, IF n < 3 THEN n ELSE 3)>>

\* a short PAN text with an anomaly was explained: five reasons, three quoted
C17_witness ==
    /\ fn_call # <<>>
    /\ fn_call[1].fn = "explain_risk"
    /\ fn_call[1].doc_type = "PAN Card"
    /\ fn_call[1].risk_assessment["Detected Anomalies"] # <<"None">>
    /\ Len(fn_text) < 40
    /\ Len(fn_call[1].result.reasons) >= 5
    /\ Len(fn_call[1].result.headline[3]) = 3

\* C18: while a PDF is processed, never more than min(4, processors) page
\* tasks run at the same time; every page is nonetheless processed in the
\* end; and a page worker writes nothing but the result of its own page
\* index, which is the only thing ever stored in that page's slot.
C18_bounded_pool ==
    /\ [](/\ Cardinality(running) <= 4
          /\ cpu_count # 0 => Cardinality(running) <= cpu_count)
    /\ (pc = "pool") ~> (\A i \in DOMAIN tasks : tasks[i] = "done" /\ writes[i] = 1)
    /\ [][/\ \A i \in DOMAIN tasks :
                (tasks[i] = "running" /\ tasks'[i] = "done")
                => /\ DOMAIN futures' = DOMAIN futures \cup {i}
                   /\ futures'[i][1] = i
                   /\ \A j \in DOMAIN futures : futures'[j] = futures[j]
                   /\ \A j \in DOMAIN tasks \ {i} : tasks'[j] = tasks[j]
                   /\ UNCHANGED <<results, writes, yielded, text, uploads, response>>
          /\ \A j \in DOMAIN results \cap DOMAIN results' :
                results'[j] # results[j]
                => /\ yielded' = Append(yielded, j)
                   /\ results'[j] = futures[j][2]
                   /\ futures[j][1] = j]_vars

\* four page tasks run at the same time on eight processors, a fifth waiting
C18_witness ==
    /\ pc = "pool"
    /\ cpu_count > 4
    /\ Cardinality(running) = 4
    /\ \E i \in DOMAIN tasks : tasks[i] = "queued"

\* C20: for a page that loads, the embedded text alone decides: stripped
\* embedded text of more than 80 characters is the page's text and OCR is not
\* invoked; with 80 characters or fewer, exactly 80 included, the page goes
\* to OCR and its text is what OCR gives (nothing when OCR fails), the
\* embedded text being dropped.
C20_fast_path_threshold ==
    pc \in {"pool", "assess"}
    => LET pages == uploads[file_path].pages
           loaded == {i \in DOMAIN futures : pages[i].fault # "load"}
           embedded(i) == strip(pages[i].emb)
       IN  /\ \A i \in loaded :
                 IF Len(embedded(i)) > 80
                 THEN futures[i][2] = embedded(i)
                 ELSE /\ futures[i][2] \in {strip(pages[i].ocr), <<>>}
                      /\ futures[i][2] # embedded(i)
           /\ "ocr" \in steps <=> \E i \in loaded : Len(embedded(i)) <= 80

\* a page with exactly 80 embedded characters has been through OCR and a
\* page with 81 has not
C20_witness ==
    /\ pc = "pool"
    /\ \E i \in DOMAIN futures :
          /\ Len(strip(uploads[file_path].pages[i].emb)) = 80
          /\ futures[i][2] = strip(uploads[file_path].pages[i].ocr)
          /\ futures[i][2] # <<>>
    /\ \E i \in DOMAIN futures :
          /\ Len(strip(uploads[file_path].pages[i].emb)) = 81
          /\ futures[i][2] = strip(uploads[file_path].pages[i].emb)

\* C19: two uploads in progress at the same time, same filename included,
\* do not affect each other: the record a call returns is the record of its
\* own document processed alone.
C19_invocations_independent ==
    (pc = "returned" /\ is_record(response))
    => LET alone == strip(text_of(file.content))
       IN  /\ response.extracted_text = alone
           /\ response.document_type =
                 IF alone = <<>> THEN "Unknown" ELSE scored_of(alone).document_type

\* C21: in the upload pipeline, for every readable text, the structured data
\* handed to risk_classification triggers no anomaly and has completeness 100
\* when it has a field and 0 when it has none; so the risk level is Low
\* whenever a field is present, which includes every Aadhaar Card and every
\* Unknown document, High when a PAN Card or a Resume yields no field, and
\* never Medium.
C21_risk_by_presence ==
    (fn_call # <<>> /\ fn_call[1].fn = "risk_classification")
    => LET data == fn_call[1].structured_data
           category == fn_call[1].doc_type
           risk == fn_call[1].result
       IN  /\ risk["Detected Anomalies"] = <<"None">>
           /\ risk["Completeness"] = IF data # <<>> THEN <<"1","0","0","%">>
                                      ELSE <<"0","%">>
           /\ risk["Risk Level"] = IF data # <<>> THEN "Low" ELSE "High"
           /\ risk["Risk Level"] # "Medium"
           /\ category \in {"Aadhaar Card", "Unknown"} => risk["Risk Level"] = "Low"
           /\ risk["Risk Level"] = "High" => category \in {"PAN Card", "Resume"}

\* a resume with an e-mail address and a phone number, both of which the
\* anomaly checks examine, was rated Low
C21_witness ==
    /\ fn_call # <<>>
    /\ fn_call[1].fn = "risk_classification"
    /\ fn_call[1].doc_type = "Resume"
    /\ {"Email", "Phone"} \subseteq DOMAIN fn_call[1].structured_data
    /\ fn_call[1].result["Risk Level"] = "Low"

\* C22: for every input explain_risk builds a non-empty reasons list, its
\* first reason being the one of the completeness step, and returns a
\* non-empty suggestions list; the headline always quotes key factors, and
\* neither the fallback headline nor the fallback reason is produced.
C22_reasons_never_empty ==
    (fn_call # <<>> /\ fn_call[1].fn = "explain_risk")
    => LET result == fn_call[1].result
       IN  /\ result.reasons # <<>>
           /\ result.suggestions # <<>>
           /\ result.reasons[1][1] \in {"Most mandatory fields are present.",
                                         "Some required fields are missing.",
                                         "Many fields are missing or unreadable."}
           /\ result.headline[2] = "Key factors: "
           /\ result.headline[3] # <<>>
           /\ \A i \in 1..Len(result.reasons) :
                 result.reasons[i][1] # "No anomalies detected."

\* an unclassified document with every field filled, no anomaly and a long
\* text was explained: the completeness reason is the only one, and no
\* suggestion was made
C22_witness ==
    /\ fn_call # <<>>
    /\ fn_call[1].fn = "explain_risk"
    /\ fn_call[1].doc_type = "Unknown"
    /\ Len(fn_call[1].result.reasons) = 1
    /\ fn_call[1].result.suggestions = << <<"No corrective actions needed.", <<>> >> >>
    /\ fn_data # <<>>

====
